---- MODULE Spec2Model ----
(***************************************************************************)
(* A model of the serde_yml encoder (src/src/ser.rs) and of the            *)
(* singleton-map proxies layered over it (src/src/with.rs).                *)
(*                                                                         *)
(* A value is a tree; its Serialize implementation drives the Serializer   *)
(* through a fixed sequence of trait-method calls.  The model keeps that   *)
(* sequence in `calls` and takes one action per trait method; each action  *)
(* is the whole method body, helper calls included.                        *)
(***************************************************************************)
EXTENDS Integers, Sequences, FiniteSets, TLC

\* ------------------------------------------------------------------------
\* Bounds
\* ------------------------------------------------------------------------
MaxDepth == 2

\* ------------------------------------------------------------------------
\* Events handed to the emitter
\* ------------------------------------------------------------------------
NoTag == ""

Ev(e, tag, text, style) == [e |-> e, tag |-> tag, text |-> text, style |-> style]

StreamStart == Ev("StreamStart", NoTag, "", "")
StreamEnd == Ev("StreamEnd", NoTag, "", "")
DocumentStart == Ev("DocumentStart", NoTag, "", "")
DocumentEnd == Ev("DocumentEnd", NoTag, "", "")
SequenceStart(tag) == Ev("SequenceStart", tag, "", "")
SequenceEnd == Ev("SequenceEnd", NoTag, "", "")
MappingStart(tag) == Ev("MappingStart", tag, "", "")
MappingEnd == Ev("MappingEnd", NoTag, "", "")
Scalar(tag, text, style) == Ev("Scalar", tag, text, style)

\* ------------------------------------------------------------------------
\* State (enum State of the Serializer)
\* ------------------------------------------------------------------------
NothingInParticular == [k |-> "NothingInParticular", tag |-> ""]
CheckForTag == [k |-> "CheckForTag", tag |-> ""]
CheckForDuplicateTag == [k |-> "CheckForDuplicateTag", tag |-> ""]
FoundTag(t) == [k |-> "FoundTag", tag |-> t]
AlreadyTagged == [k |-> "AlreadyTagged", tag |-> ""]

IsFoundTag(st) == st.k = "FoundTag"

\* ------------------------------------------------------------------------
\* Texts
\* ------------------------------------------------------------------------
VariantNames == {"A", "B"}
BangPrefixed == {"!A", "!B"}
StartsWithBang(t) == t \in BangPrefixed

\* ------------------------------------------------------------------------
\* The Serializer: a record [state, depth, events, err]
\* ------------------------------------------------------------------------
Ok == "ok"
SerializeNestedEnum == "SerializeNestedEnum"
BytesUnsupported == "BytesUnsupported"

new_with_config ==
    [state |-> NothingInParticular, depth |-> 0, events |-> <<>>, err |-> Ok]

emit(s, ev) == [s EXCEPT !.events = Append(@, ev)]

value_start(s) ==
    LET s1 == IF s.depth = 0 THEN emit(s, DocumentStart) ELSE s
    IN  [s1 EXCEPT !.depth = @ + 1]

saturating_sub(n, m) == IF n >= m THEN n - m ELSE 0

value_end(s) ==
    LET s1 == [s EXCEPT !.depth = saturating_sub(@, 1)]
    IN  IF s1.depth = 0 THEN emit(s1, DocumentEnd) ELSE s1

take_tag_value_without_bang(s) ==
    IF IsFoundTag(s.state) THEN s.state.tag ELSE NoTag

\* take_tag returns the tag (NoTag for None) and resets a FoundTag state.
take_tag_value(s) ==
    IF IsFoundTag(s.state)
    THEN IF StartsWithBang(s.state.tag) THEN s.state.tag ELSE "!" \o s.state.tag
    ELSE NoTag

take_tag_state(s) ==
    IF IsFoundTag(s.state) THEN [s EXCEPT !.state = NothingInParticular] ELSE s

RECURSIVE flush_mapping_start(_)
emit_mapping_start(s) ==
    LET s1 == flush_mapping_start(s)
        s2 == value_start(s1)
        tag == take_tag_value(s2)
        s3 == take_tag_state(s2)
    IN  emit(s3, MappingStart(tag))

flush_mapping_start_dropped(s) ==
    IF s.state.k \in {"CheckForTag", "CheckForDuplicateTag"}
    THEN [s EXCEPT !.state = NothingInParticular]
    ELSE s

flush_mapping_start(s) ==
    CASE s.state.k = "CheckForTag" ->
            emit_mapping_start([s EXCEPT !.state = NothingInParticular])
      [] s.state.k = "CheckForDuplicateTag" ->
            [s EXCEPT !.state = NothingInParticular]
      [] OTHER -> s

emit_scalar_plain_when_nested(s, text, style) ==
    LET s1 == flush_mapping_start(s)
        tag == take_tag_value(s1)
        s2 == take_tag_state(s1)
        s3 == value_start(s2)
        s4 == emit(s3, Scalar(tag, text,
                              IF s.depth > 0 /\ style = "SingleQuoted"
                              THEN "Plain" ELSE style))
    IN  value_end(s4)

emit_scalar(s, text, style) ==
    LET s1 == flush_mapping_start(s)
        tag == take_tag_value(s1)
        s2 == take_tag_state(s1)
        s3 == value_start(s2)
        s4 == emit(s3, Scalar(tag, text, style))
    IN  value_end(s4)

emit_sequence_start(s) ==
    LET s1 == flush_mapping_start(s)
        s2 == value_start(s1)
        tag == take_tag_value(s2)
        s3 == take_tag_state(s2)
    IN  emit(s3, SequenceStart(tag))

emit_sequence_end(s) == value_end(emit(s, SequenceEnd))

emit_mapping_end(s) == value_end(emit(s, MappingEnd))

fail(s, e) == [s EXCEPT !.err = e]

\* ------------------------------------------------------------------------
\* Scalar style of a string (serialize_str)
\* ------------------------------------------------------------------------
BoolTokens ==
    {"y", "Y", "yes", "Yes", "YES", "n", "N", "no", "No", "NO",
     "true", "True", "TRUE", "false", "False", "FALSE",
     "on", "On", "ON", "off", "Off", "OFF"}

\* the i-th character of a text
CharAt(text, i) == SubSeq(text, i, i)

\* value.contains('\n')
ContainsNewline(text) == \E i \in 1..Len(text) : CharAt(text, i) = "\n"

UpperLetters == "ABCDEFGHIJKLMNOPQRSTUVWXYZ"
LowerLetters == "abcdefghijklmnopqrstuvwxyz"

LowerChar(c) ==
    IF \E i \in 1..Len(UpperLetters) : CharAt(UpperLetters, i) = c
    THEN CharAt(LowerLetters,
                CHOOSE i \in 1..Len(UpperLetters) : CharAt(UpperLetters, i) = c)
    ELSE c

\* str::to_lowercase
RECURSIVE LowerCase(_)
LowerCase(text) ==
    IF text = "" THEN ""
    ELSE LowerChar(CharAt(text, 1)) \o LowerCase(SubSeq(text, 2, Len(text)))

Digits == "0123456789"
IsDigit(c) == \E i \in 1..Len(Digits) : CharAt(Digits, i) = c
AllDigits(text) ==
    text # "" /\ \A i \in 1..Len(text) : IsDigit(CharAt(text, i))

WithoutSign(text) ==
    IF text # "" /\ CharAt(text, 1) \in {"-", "+"}
    THEN SubSeq(text, 2, Len(text)) ELSE text

\* a decimal integer; digits with a leading zero are a string
IsInteger(text) ==
    LET body == WithoutSign(text)
    IN  AllDigits(body) /\ (Len(body) = 1 \/ CharAt(body, 1) # "0")

\* digits, a point, digits; or one of the YAML names of a special float
IsFloat(text) ==
    \/ text \in {".nan", ".NaN", ".NAN", ".inf", ".Inf", ".INF",
                 "-.inf", "-.Inf", "-.INF", "+.inf", "+.Inf", "+.INF"}
    \/ LET body == WithoutSign(text)
       IN  \E i \in 2..(Len(body) - 1) :
              /\ CharAt(body, i) = "."
              /\ IsInteger(SubSeq(body, 1, i - 1))
              /\ AllDigits(SubSeq(body, i + 1, Len(body)))

\* crate::de::visit_untagged_scalar: which visitor method a plain scalar
\* with this text reaches
UntaggedScalarKind(text) ==
    CASE text \in {"", "null", "Null", "NULL", "~"} -> "unit"
      [] text \in {"true", "True", "TRUE", "false", "False", "FALSE"} -> "bool"
      [] IsInteger(text) -> "int"
      [] IsFloat(text) -> "float"
      [] OTHER -> "str"

\* the boolean-like and null tokens of YAML readers, in lower case
BoolLikeTokens == {"y", "yes", "n", "no", "true", "false", "on", "off"}
NullLikeTokens == {"null", "~"}

\* crate::de::ambiguous_string: in any letter case, a token a reader could
\* take for a bool or for null
ambiguous_string(text) ==
    LowerCase(text) \in BoolLikeTokens \cup NullLikeTokens

InferScalarStyle_str_never_quoted(text) ==
    IF UntaggedScalarKind(text) = "str" THEN "Any" ELSE "SingleQuoted"

InferScalarStyle(text) ==
    IF UntaggedScalarKind(text) = "str"
    THEN IF ambiguous_string(text) THEN "SingleQuoted" ELSE "Any"
    ELSE "SingleQuoted"

StrStyle_without_literal(text) ==
    CASE text \in BoolTokens -> "SingleQuoted"
      [] OTHER -> InferScalarStyle(text)

StrStyle(text) ==
    CASE text \in BoolTokens -> "SingleQuoted"
      [] ContainsNewline(text) -> "Literal"
      [] OTHER -> InferScalarStyle(text)

\* ------------------------------------------------------------------------
\* Values (what a Serialize implementation describes)
\* ------------------------------------------------------------------------
StrV(t) == [k |-> "str", text |-> t]
IntV(t) == [k |-> "int", text |-> t]
NoneV == [k |-> "none"]
Bytes == [k |-> "bytes"]
\* a value whose Serialize calls collect_str; tag = it displays as "!" text
Display(t, tag) == [k |-> "display", text |-> t, tag |-> tag]
SomeV(v) == [k |-> "some", v |-> v]
SeqV(items) == [k |-> "seq", items |-> items]
\* len1: declared length is Some(1); entry: written with serialize_entry
MapV(len1, entry, entries) ==
    [k |-> "map", len1 |-> len1, entry |-> entry, entries |-> entries]
KV(key, value) == [key |-> key, value |-> value]
StructV(fields) == [k |-> "struct", fields |-> fields]
Field(name, value) == [name |-> name, value |-> value]
UnitVariant(n) == [k |-> "uvar", name |-> n]
NewtypeVariant(n, v) == [k |-> "nvar", name |-> n, v |-> v]
TupleVariant(n, items) == [k |-> "tvar", name |-> n, items |-> items]
StructVariant(n, fields) == [k |-> "svar", name |-> n, fields |-> fields]

Leaves ==
    {StrV("x"), IntV("42"), NoneV, Bytes,
     Display("B", TRUE), Display("x", FALSE),
     UnitVariant("A")}

Filler == IntV("1")

\* every shape of value, around the values of C
Composites(C) ==
    {SeqV(<<>>), MapV(FALSE, TRUE, <<>>), MapV(TRUE, TRUE, <<>>)}
    \cup {SeqV(<<c>>) : c \in C}
    \cup {SomeV(c) : c \in C}
    \cup {StructV(<<Field("f", c)>>) : c \in C}
    \cup {NewtypeVariant(n, c) : n \in VariantNames, c \in C}
    \cup {TupleVariant("A", <<c>>) : c \in C}
    \cup {StructVariant("B", <<Field("f", c)>>) : c \in C}
    \cup {MapV(l, e, <<KV(c, Filler)>>) : l \in BOOLEAN, e \in BOOLEAN, c \in C}
    \cup {MapV(l, TRUE, <<KV(StrV("x"), c)>>) : l \in BOOLEAN, c \in C}
    \cup {MapV(TRUE, TRUE, <<KV(Display("B", TRUE), c)>>) : c \in C}
    \cup {MapV(FALSE, TRUE, <<KV(c, Filler), KV(StrV("x"), Filler)>>) : c \in C}

\* the places a value can be nested in: sequence element, optional, variant
\* payload, map key (with serialize_entry and with serialize_key), map value
Wrappers(C) ==
    {SeqV(<<c>>) : c \in C}
    \cup {SomeV(c) : c \in C}
    \cup {NewtypeVariant("B", c) : c \in C}
    \cup {TupleVariant("A", <<c>>) : c \in C}
    \cup {StructVariant("B", <<Field("f", c)>>) : c \in C}
    \cup {MapV(TRUE, e, <<KV(c, Filler)>>) : e \in BOOLEAN, c \in C}
    \cup {MapV(TRUE, TRUE, <<KV(StrV("x"), c)>>) : c \in C}
    \cup {MapV(TRUE, TRUE, <<KV(Display("B", TRUE), c)>>) : c \in C}

RECURSIVE ValuesOfDepth(_)
ValuesOfDepth(d) ==
    IF d = 0 THEN Leaves
    ELSE LET C == ValuesOfDepth(d - 1)
         IN  C \cup (IF d = 1 THEN Composites(C) ELSE Wrappers(C))

Values == ValuesOfDepth(MaxDepth)

\* ------------------------------------------------------------------------
\* The calls a value's Serialize implementation makes on the Serializer
\* ------------------------------------------------------------------------
Call(op, text, flag) == [op |-> op, text |-> text, flag |-> flag]

RECURSIVE Calls(_), CallsOfItems(_), CallsOfEntries(_, _), CallsOfFields(_)
Calls(v) ==
    CASE v.k = "str" -> <<Call("serialize_str", v.text, FALSE)>>
      [] v.k = "int" -> <<Call("serialize_i64", v.text, FALSE)>>
      [] v.k = "none" -> <<Call("serialize_none", "", FALSE)>>
      [] v.k = "bytes" -> <<Call("serialize_bytes", "", FALSE)>>
      [] v.k = "display" -> <<Call("collect_str", v.text, v.tag)>>
      [] v.k = "some" -> Calls(v.v)
      [] v.k = "seq" ->
            <<Call("serialize_seq", "", FALSE)>> \o CallsOfItems(v.items)
            \o <<Call("seq_end", "", FALSE)>>
      [] v.k = "map" ->
            <<Call("serialize_map", "", v.len1)>>
            \o CallsOfEntries(v.entries, v.entry)
            \o <<Call("map_end", "", FALSE)>>
      [] v.k = "struct" ->
            <<Call("serialize_struct", "", FALSE)>> \o CallsOfFields(v.fields)
            \o <<Call("struct_end", "", FALSE)>>
      [] v.k = "uvar" -> <<Call("serialize_unit_variant", v.name, FALSE)>>
      [] v.k = "nvar" ->
            <<Call("serialize_newtype_variant", v.name, FALSE)>> \o Calls(v.v)
      [] v.k = "tvar" ->
            <<Call("serialize_tuple_variant", v.name, FALSE)>>
            \o CallsOfItems(v.items) \o <<Call("seq_end", "", FALSE)>>
      [] v.k = "svar" ->
            <<Call("serialize_struct_variant", v.name, FALSE)>>
            \o CallsOfFields(v.fields) \o <<Call("struct_end", "", FALSE)>>

CallsOfItems(items) ==
    IF items = <<>> THEN <<>>
    ELSE Calls(Head(items)) \o CallsOfItems(Tail(items))

CallsOfEntries(entries, entry) ==
    IF entries = <<>> THEN <<>>
    ELSE LET e == Head(entries)
         IN (IF entry
             THEN Calls(e.key) \o <<Call("entry_mid", "", FALSE)>>
                  \o Calls(e.value) \o <<Call("entry_end", "", FALSE)>>
             ELSE <<Call("serialize_key", "", FALSE)>> \o Calls(e.key)
                  \o Calls(e.value))
            \o CallsOfEntries(Tail(entries), entry)

CallsOfFields(fields) ==
    IF fields = <<>> THEN <<>>
    ELSE <<Call("struct_field", Head(fields).name, FALSE)>>
         \o Calls(Head(fields).value) \o CallsOfFields(Tail(fields))

TagOf(name) == "!" \o name

\* Display of a value serialized with collect_str
to_string(text, tag) == IF tag THEN "!" \o text ELSE text

\* ------------------------------------------------------------------------
\* crate::value::Serializer (to_value), as the value whose Serialize makes
\* the calls the resulting serde_yml Value makes.  rec: the serializer is
\* wrapped in SingletonMapRecursive.
\* ------------------------------------------------------------------------
TaggedValue(tag, value) == MapV(TRUE, TRUE, <<KV(Display(tag, TRUE), value)>>)

RECURSIVE InsertEntry(_, _)
InsertEntry(entries, e) ==
    IF entries = <<>> THEN <<e>>
    ELSE IF Head(entries).key = e.key THEN <<e>> \o Tail(entries)
    ELSE <<Head(entries)>> \o InsertEntry(Tail(entries), e)

Mapping(entries) == MapV(Len(entries) = 1, TRUE, entries)

RECURSIVE ToValue(_, _), ToValueItems(_, _), ToValueEntries(_, _, _),
          ToValueFields(_, _, _)
ToValue(v, rec) ==
    CASE v.k \in {"str", "int", "none"} -> v
      [] v.k = "bytes" -> SeqV(<<IntV("1")>>)
      [] v.k = "display" -> StrV(to_string(v.text, v.tag))
      [] v.k = "some" -> ToValue(v.v, rec)
      [] v.k = "seq" -> SeqV(ToValueItems(v.items, rec))
      [] v.k = "struct" -> Mapping(ToValueFields(v.fields, rec, <<>>))
      [] v.k = "map" ->
            IF /\ v.len1 /\ v.entry /\ Len(v.entries) = 1
               /\ v.entries[1].key.k = "display" /\ v.entries[1].key.tag
            THEN TaggedValue(v.entries[1].key.text,
                             ToValue(v.entries[1].value, rec))
            ELSE Mapping(ToValueEntries(v.entries, rec, <<>>))
      [] v.k = "uvar" -> StrV(v.name)
      [] v.k = "nvar" ->
            IF rec THEN Mapping(<<KV(StrV(v.name), ToValue(v.v, rec))>>)
            ELSE TaggedValue(v.name, ToValue(v.v, rec))
      [] v.k = "tvar" ->
            IF rec
            THEN Mapping(<<KV(StrV(v.name), SeqV(ToValueItems(v.items, rec)))>>)
            ELSE TaggedValue(v.name, SeqV(ToValueItems(v.items, rec)))
      [] v.k = "svar" ->
            IF rec
            THEN Mapping(<<KV(StrV(v.name),
                              Mapping(ToValueFields(v.fields, rec, <<>>)))>>)
            ELSE TaggedValue(v.name, Mapping(ToValueFields(v.fields, rec, <<>>)))

ToValueItems(items, rec) ==
    IF items = <<>> THEN <<>>
    ELSE <<ToValue(Head(items), rec)>> \o ToValueItems(Tail(items), rec)

ToValueEntries(entries, rec, acc) ==
    IF entries = <<>> THEN acc
    ELSE ToValueEntries(Tail(entries), rec,
            InsertEntry(acc, KV(ToValue(Head(entries).key, rec),
                                ToValue(Head(entries).value, rec))))

ToValueFields(fields, rec, acc) ==
    IF fields = <<>> THEN acc
    ELSE ToValueFields(Tail(fields), rec,
            InsertEntry(acc, KV(StrV(Head(fields).name),
                                ToValue(Head(fields).value, rec))))

\* ------------------------------------------------------------------------
\* with::singleton_map: impl Serializer for SingletonMap<D>
\* ------------------------------------------------------------------------
SerializeMapSome1 == <<Call("serialize_map", "", TRUE)>>

SerializeEntryCalls(keyCalls, valueCalls) ==
    keyCalls \o <<Call("entry_mid", "", FALSE)>> \o valueCalls
    \o <<Call("entry_end", "", FALSE)>>

SerializeKeyCalls(keyCalls) == <<Call("serialize_key", "", FALSE)>> \o keyCalls

MapEndCalls == <<Call("map_end", "", FALSE)>>

RECURSIVE SingletonMapCalls(_), SingletonMapRecursiveCalls(_),
          RecursiveItems(_), RecursiveEntries(_, _), RecursiveFields(_)
SingletonMapCalls_rewrapping(v) == SingletonMapRecursiveCalls(v)

SingletonMapCalls(v) ==
    CASE v.k = "nvar" ->
            SerializeMapSome1
            \o SerializeEntryCalls(Calls(StrV(v.name)), Calls(v.v))
            \o MapEndCalls
      [] v.k = "tvar" ->
            SerializeMapSome1 \o SerializeKeyCalls(Calls(StrV(v.name)))
            \o Calls(SeqV(ToValueItems(v.items, FALSE)))
            \o MapEndCalls
      [] v.k = "svar" ->
            SerializeMapSome1 \o SerializeKeyCalls(Calls(StrV(v.name)))
            \o Calls(Mapping(ToValueFields(v.fields, FALSE, <<>>)))
            \o MapEndCalls
      [] v.k = "some" -> SingletonMapCalls(v.v)
      [] OTHER -> Calls(v)

\* with::singleton_map_optional::serialize, on an Option
SingletonMapOptionalCalls_unwrapped(v) == Calls(v)

SingletonMapOptionalCalls(v) ==
    IF v.k = "some" THEN SingletonMapCalls(v.v)
    ELSE <<Call("serialize_none", "", FALSE)>>

\* ------------------------------------------------------------------------
\* with::singleton_map_recursive: impl Serializer (and SerializeSeq,
\* SerializeMap, SerializeStruct, ...) for SingletonMapRecursive<D>
\* ------------------------------------------------------------------------
SingletonMapRecursiveCalls(v) ==
    CASE v.k = "nvar" ->
            SerializeMapSome1
            \o SerializeEntryCalls(Calls(StrV(v.name)),
                                   SingletonMapRecursiveCalls(v.v))
            \o MapEndCalls
      [] v.k = "tvar" ->
            SerializeMapSome1 \o SerializeKeyCalls(Calls(StrV(v.name)))
            \o Calls(SeqV(ToValueItems(v.items, TRUE)))
            \o MapEndCalls
      [] v.k = "svar" ->
            SerializeMapSome1 \o SerializeKeyCalls(Calls(StrV(v.name)))
            \o Calls(Mapping(ToValueFields(v.fields, TRUE, <<>>)))
            \o MapEndCalls
      [] v.k = "some" -> SingletonMapRecursiveCalls(v.v)
      [] v.k = "seq" ->
            <<Call("serialize_seq", "", FALSE)>> \o RecursiveItems(v.items)
            \o <<Call("seq_end", "", FALSE)>>
      [] v.k = "map" ->
            <<Call("serialize_map", "", v.len1)>>
            \o RecursiveEntries(v.entries, v.entry)
            \o MapEndCalls
      [] v.k = "struct" ->
            <<Call("serialize_struct", "", FALSE)>> \o RecursiveFields(v.fields)
            \o <<Call("struct_end", "", FALSE)>>
      [] OTHER -> Calls(v)

RecursiveItems_forwarding(items) == CallsOfItems(items)

RecursiveItems(items) ==
    IF items = <<>> THEN <<>>
    ELSE SingletonMapRecursiveCalls(Head(items)) \o RecursiveItems(Tail(items))

RecursiveEntries(entries, entry) ==
    IF entries = <<>> THEN <<>>
    ELSE LET e == Head(entries)
         IN (IF entry
             THEN SerializeEntryCalls(SingletonMapRecursiveCalls(e.key),
                                      SingletonMapRecursiveCalls(e.value))
             ELSE SerializeKeyCalls(SingletonMapRecursiveCalls(e.key))
                  \o SingletonMapRecursiveCalls(e.value))
            \o RecursiveEntries(Tail(entries), entry)

RecursiveFields(fields) ==
    IF fields = <<>> THEN <<>>
    ELSE <<Call("struct_field", Head(fields).name, FALSE)>>
         \o SingletonMapRecursiveCalls(Head(fields).value)
         \o RecursiveFields(Tail(fields))

\* ------------------------------------------------------------------------
\* Serializer trait methods (impl ser::Serializer for &mut Serializer<W>)
\* ------------------------------------------------------------------------
serialize_i64(s, text) == emit_scalar(s, text, "Plain")

serialize_str(s, text) == emit_scalar(s, text, StrStyle(text))

serialize_unit(s) == emit_scalar(s, "null", "Plain")

serialize_none(s) == serialize_unit(s)

serialize_bytes(s) == fail(s, BytesUnsupported)

serialize_unit_variant_untagged(s, tag_unit_variants, variant) ==
    serialize_str(s, variant)

serialize_unit_variant_named(s, tag_unit_variants, variant) ==
    IF ~tag_unit_variants THEN serialize_str(s, variant)
    ELSE IF IsFoundTag(s.state) THEN fail(s, SerializeNestedEnum)
    ELSE emit_scalar([s EXCEPT !.state = FoundTag(variant)], variant, "Plain")

serialize_unit_variant(s, tag_unit_variants, variant) ==
    IF ~tag_unit_variants THEN serialize_str(s, variant)
    ELSE IF IsFoundTag(s.state) THEN fail(s, SerializeNestedEnum)
    ELSE emit_scalar([s EXCEPT !.state = FoundTag(variant)], "", "Plain")

serialize_newtype_variant_unchecked(s, variant) ==
    [s EXCEPT !.state = FoundTag(variant)]

serialize_newtype_variant(s, variant) ==
    IF IsFoundTag(s.state) THEN fail(s, SerializeNestedEnum)
    ELSE [s EXCEPT !.state = FoundTag(variant)]

serialize_seq(s) == emit_sequence_start(s)

serialize_tuple_variant(s, variant) ==
    IF IsFoundTag(s.state) THEN fail(s, SerializeNestedEnum)
    ELSE emit_sequence_start([s EXCEPT !.state = FoundTag(variant)])

serialize_map(s, len1) ==
    IF len1
    THEN IF IsFoundTag(s.state)
         THEN [emit_mapping_start(s) EXCEPT !.state = CheckForDuplicateTag]
         ELSE [s EXCEPT !.state = CheckForTag]
    ELSE emit_mapping_start(s)

serialize_struct(s) == emit_mapping_start(s)

serialize_struct_variant(s, variant) ==
    IF IsFoundTag(s.state) THEN fail(s, SerializeNestedEnum)
    ELSE emit_mapping_start([s EXCEPT !.state = FoundTag(variant)])

\* tagged::check_for_tag: a value that displays as "!" followed by a name is
\* a tag; anything else is returned as its display text
check_for_tag(text, tag) ==
    IF tag THEN [is_tag |-> TRUE, string |-> text]
    ELSE [is_tag |-> FALSE, string |-> text]

\* a second tag replaces the first instead of being refused
collect_str_retagging(s, text, tag) ==
    IF s.state.k \in {"CheckForTag", "CheckForDuplicateTag"}
    THEN LET m == check_for_tag(text, tag)
         IN  IF m.is_tag
             THEN [s EXCEPT !.state = FoundTag(m.string)]
             ELSE serialize_str(s, m.string)
    ELSE serialize_str(s, to_string(text, tag))

collect_str(s, text, tag) ==
    IF s.state.k \in {"CheckForTag", "CheckForDuplicateTag"}
    THEN LET m == check_for_tag(text, tag)
         IN  IF m.is_tag
             THEN IF s.state.k = "CheckForDuplicateTag"
                  THEN fail(s, SerializeNestedEnum)
                  ELSE [s EXCEPT !.state = FoundTag(m.string)]
             ELSE serialize_str(s, m.string)
    ELSE serialize_str(s, to_string(text, tag))

\* impl SerializeMap
serialize_key(s) == flush_mapping_start(s)

serialize_entry_tagged(s) == IsFoundTag(s.state)

serialize_entry_finish_forgetful(s, tagged) == s

serialize_entry_finish(s, tagged) ==
    IF tagged THEN [s EXCEPT !.state = AlreadyTagged] ELSE s

\* end without its last assignment
map_end_keeping_state(s) ==
    LET s1 == IF s.state.k = "CheckForTag" THEN emit_mapping_start(s) ELSE s
    IN  IF s1.state.k # "AlreadyTagged" THEN emit_mapping_end(s1) ELSE s1

\* SerializeMap::end
map_end(s) ==
    LET s1 == IF s.state.k = "CheckForTag" THEN emit_mapping_start(s) ELSE s
        s2 == IF s1.state.k # "AlreadyTagged" THEN emit_mapping_end(s1) ELSE s1
    IN  [s2 EXCEPT !.state = NothingInParticular]

\* impl SerializeSeq / SerializeTuple / SerializeTupleVariant
seq_end(s) == emit_sequence_end(s)

\* impl SerializeStruct / SerializeStructVariant
struct_serialize_field_unquoted(s, key) == emit_scalar(s, key, "Any")

struct_serialize_field(s, key) == serialize_str(s, key)

struct_end(s) == emit_mapping_end(s)

\* ------------------------------------------------------------------------
\* Types a document is decoded into (the Deserialize implementations)
\* ------------------------------------------------------------------------
TUnit == [t |-> "unit"]
TStr == [t |-> "str"]
TInt == [t |-> "i64"]
TOption(of) == [t |-> "option", of |-> of]
TSeq(items) == [t |-> "seq", items |-> items]
TMap(len1, entry, entries) ==
    [t |-> "map", len1 |-> len1, entry |-> entry, entries |-> entries]
TStruct(fields) == [t |-> "struct", fields |-> fields]
TEnum(variants) == [t |-> "enum", variants |-> variants]
Variant(name, shape, ty) == [name |-> name, shape |-> shape, ty |-> ty]

RECURSIVE TypeOf(_)
TypeOf(v) ==
    CASE v.k \in {"str", "display"} -> TStr
      [] v.k = "int" -> TInt
      [] v.k = "none" -> TOption(TInt)
      [] v.k = "some" -> TOption(TypeOf(v.v))
      [] v.k = "seq" ->
            TSeq([i \in 1..Len(v.items) |-> TypeOf(v.items[i])])
      [] v.k = "map" ->
            TMap(v.len1, v.entry,
                 [i \in 1..Len(v.entries) |->
                    KV(TypeOf(v.entries[i].key), TypeOf(v.entries[i].value))])
      [] v.k = "struct" ->
            TStruct([i \in 1..Len(v.fields) |->
                        Field(v.fields[i].name, TypeOf(v.fields[i].value))])
      [] v.k = "uvar" -> TEnum(<<Variant(v.name, "unit", TUnit)>>)
      [] v.k = "nvar" -> TEnum(<<Variant(v.name, "newtype", TypeOf(v.v))>>)
      [] v.k = "tvar" ->
            TEnum(<<Variant(v.name, "tuple",
                     TSeq([i \in 1..Len(v.items) |-> TypeOf(v.items[i])]))>>)
      [] v.k = "svar" ->
            TEnum(<<Variant(v.name, "struct",
                     TStruct([i \in 1..Len(v.fields) |->
                        Field(v.fields[i].name,
                              TypeOf(v.fields[i].value))]))>>)
      [] OTHER -> TUnit

\* ------------------------------------------------------------------------
\* The document read back from the events (emitter, parser and loader)
\* ------------------------------------------------------------------------
ScalarNode(tag, text, style) ==
    [k |-> "scalar", tag |-> tag, text |-> text, style |-> style]
SeqNode(tag, items) == [k |-> "seq", tag |-> tag, items |-> items]
MapNode(tag, entries) == [k |-> "map", tag |-> tag, entries |-> entries]

NoNode == [k |-> "nothing"]

\* the style the parser reports for a scalar the emitter wrote
ParsedStyle(text, style) ==
    IF style = "Any"
    THEN IF text = "" \/ ContainsNewline(text) THEN "SingleQuoted" ELSE "Plain"
    ELSE IF style = "Plain" /\ text = "" THEN "SingleQuoted"
    ELSE style

Parsed(node, next) == [ok |-> TRUE, node |-> node, next |-> next]
NotParsed == [ok |-> FALSE, node |-> NoNode, next |-> 0]

RECURSIVE ParseNode(_, _), ParseItems(_, _, _), ParseEntries(_, _, _)
\* the node that starts at events[i] and the index after it
ParseNode(events, i) ==
    IF i > Len(events) THEN NotParsed
    ELSE LET ev == events[i]
         IN  CASE ev.e = "Scalar" ->
                    Parsed(ScalarNode(ev.tag, ev.text,
                                      ParsedStyle(ev.text, ev.style)), i + 1)
               [] ev.e = "SequenceStart" ->
                    LET r == ParseItems(events, i + 1, <<>>)
                    IN  IF r.ok THEN Parsed(SeqNode(ev.tag, r.node), r.next)
                        ELSE NotParsed
               [] ev.e = "MappingStart" ->
                    LET r == ParseEntries(events, i + 1, <<>>)
                    IN  IF r.ok THEN Parsed(MapNode(ev.tag, r.node), r.next)
                        ELSE NotParsed
               [] OTHER -> NotParsed

ParseItems(events, i, acc) ==
    IF i > Len(events) THEN NotParsed
    ELSE IF events[i].e = "SequenceEnd" THEN Parsed(acc, i + 1)
    ELSE LET r == ParseNode(events, i)
         IN  IF r.ok THEN ParseItems(events, r.next, Append(acc, r.node))
             ELSE NotParsed

ParseEntries(events, i, acc) ==
    IF i > Len(events) THEN NotParsed
    ELSE IF events[i].e = "MappingEnd" THEN Parsed(acc, i + 1)
    ELSE LET key == ParseNode(events, i)
         IN  IF ~key.ok THEN NotParsed
             ELSE LET value == ParseNode(events, key.next)
                  IN  IF ~value.ok THEN NotParsed
                      ELSE ParseEntries(events, value.next,
                                        Append(acc, KV(key.node, value.node)))

\* from_str reads exactly one document
Load(events) ==
    IF Len(events) >= 3 /\ events[1] = DocumentStart
    THEN LET r == ParseNode(events, 2)
         IN  IF r.ok /\ r.next = Len(events) /\ events[r.next] = DocumentEnd
             THEN r.node
             ELSE NoNode
    ELSE NoNode

\* ------------------------------------------------------------------------
\* Decoding: the default Deserializer and the with.rs proxies around it
\* ------------------------------------------------------------------------
Error(kind) == [k |-> "error", kind |-> kind]
IsError(r) == r.k = "error"

SingleKeyError == Error("invalid value: map, expected map with a single key")
UnitVariantError == Error("invalid type: map, expected unit variant")
UnknownVariant == Error("unknown variant")
InvalidType == Error("invalid type")
NestedEnumError == Error("nested enum")
SyntaxError == Error("not one document")

\* the delegate below a proxy: singleton_map hands its children to the
\* default Deserializer, singleton_map_recursive wraps them again
Child(m) == IF m = "singleton_map_recursive" THEN m ELSE "plain"

Untagged(n, tagged_already) == n.tag = NoTag \/ tagged_already

IsNull(n, tagged_already) ==
    /\ n.k = "scalar"
    /\ Untagged(n, tagged_already)
    /\ n.style = "Plain"
    /\ UntaggedScalarKind(n.text) = "unit"

FindVariant(variants, name) ==
    LET found == {i \in 1..Len(variants) : variants[i].name = name}
    IN  IF found = {} THEN 0 ELSE CHOOSE i \in found : TRUE

FindTag(variants, tag) ==
    LET found == {i \in 1..Len(variants) : TagOf(variants[i].name) = tag}
    IN  IF found = {} THEN 0 ELSE CHOOSE i \in found : TRUE

\* de::value::StrDeserializer as EnumAccess: a unit variant only
visit_str(ty, text) ==
    LET i == FindVariant(ty.variants, text)
    IN  IF i = 0 THEN UnknownVariant
        ELSE IF ty.variants[i].shape = "unit" THEN UnitVariant(text)
        ELSE InvalidType

RECURSIVE Deserialize(_, _, _, _), DeserializeItems(_, _, _, _),
          DeserializeEntries(_, _, _, _), DeserializeFields(_, _, _, _),
          DeserializePayload(_, _, _, _), deserialize_enum(_, _, _),
          visit_map(_, _, _), newtype_variant_seed(_, _, _),
          tuple_variant(_, _, _), struct_variant(_, _, _)

\* the payload of variant `var`, read from node n
DeserializePayload(var, n, m, tagged_already) ==
    CASE var.shape = "newtype" ->
            LET r == Deserialize(var.ty, n, m, tagged_already)
            IN  IF IsError(r) THEN r ELSE NewtypeVariant(var.name, r)
      [] var.shape = "tuple" ->
            IF n.k = "seq" /\ Untagged(n, tagged_already)
                           /\ Len(n.items) = Len(var.ty.items)
            THEN LET r == DeserializeItems(var.ty.items, n.items, m, <<>>)
                 IN  IF IsError(r) THEN r ELSE TupleVariant(var.name, r.items)
            ELSE InvalidType
      [] var.shape = "struct" ->
            IF n.k = "map" /\ Untagged(n, tagged_already)
                           /\ Len(n.entries) = Len(var.ty.fields)
            THEN LET r == DeserializeFields(var.ty.fields, n.entries, m, <<>>)
                 IN  IF IsError(r) THEN r
                     ELSE StructVariant(var.name, r.items)
            ELSE InvalidType
      [] var.shape = "unit" ->
            IF n.k = "scalar" /\ Untagged(n, tagged_already) /\ n.text = ""
            THEN UnitVariant(var.name)
            ELSE IF IsNull(n, tagged_already) THEN UnitVariant(var.name)
            ELSE InvalidType

\* EnumAccess::variant_seed and VariantAccess of SingletonMapAsEnum and
\* SingletonMapRecursiveAsEnum
newtype_variant_seed_lenient(var, entries, m) ==
    DeserializePayload(var, entries[1].value, Child(m), FALSE)

newtype_variant_seed(var, entries, m) ==
    LET value == DeserializePayload(var, entries[1].value, Child(m), FALSE)
    IN  IF IsError(value) THEN value
        ELSE IF Len(entries) > 1 THEN SingleKeyError
        ELSE value

tuple_variant(var, entries, m) ==
    LET value == DeserializePayload(var, entries[1].value, Child(m), FALSE)
    IN  IF IsError(value) THEN value
        ELSE IF Len(entries) > 1 THEN SingleKeyError
        ELSE value

struct_variant(var, entries, m) ==
    LET value == DeserializePayload(var, entries[1].value, Child(m), FALSE)
    IN  IF IsError(value) THEN value
        ELSE IF Len(entries) > 1 THEN SingleKeyError
        ELSE value

visit_map_unit_accepting(ty, entries, m) ==
    IF entries = <<>> THEN SingleKeyError
    ELSE LET key == entries[1].key
             i == IF key.k = "scalar" THEN FindVariant(ty.variants, key.text)
                  ELSE 0
         IN  IF key.k # "scalar" THEN InvalidType
             ELSE IF i = 0 THEN UnknownVariant
             ELSE LET var == ty.variants[i]
                  IN  CASE var.shape = "unit" -> UnitVariant(var.name)
                        [] var.shape = "newtype" ->
                              newtype_variant_seed(var, entries, m)
                        [] var.shape = "tuple" -> tuple_variant(var, entries, m)
                        [] var.shape = "struct" ->
                              struct_variant(var, entries, m)

visit_map(ty, entries, m) ==
    IF entries = <<>> THEN SingleKeyError
    ELSE LET key == entries[1].key
             i == IF key.k = "scalar" THEN FindVariant(ty.variants, key.text)
                  ELSE 0
         IN  IF key.k # "scalar" THEN InvalidType
             ELSE IF i = 0 THEN UnknownVariant
             ELSE LET var == ty.variants[i]
                  IN  CASE var.shape = "unit" -> UnitVariantError
                        [] var.shape = "newtype" ->
                              newtype_variant_seed(var, entries, m)
                        [] var.shape = "tuple" -> tuple_variant(var, entries, m)
                        [] var.shape = "struct" ->
                              struct_variant(var, entries, m)

\* deserialize_enum of the proxies: delegate.deserialize_any with the
\* visitor SingletonMapAsEnum
deserialize_enum(ty, n, m) ==
    IF n.tag # NoTag THEN InvalidType
    ELSE CASE n.k = "scalar" ->
                IF n.style # "Plain" \/ UntaggedScalarKind(n.text) = "str"
                THEN visit_str(ty, n.text)
                ELSE InvalidType
           [] n.k = "map" -> visit_map(ty, n.entries, m)
           [] OTHER -> InvalidType

\* the default Deserializer's deserialize_enum: the variant is named by the
\* tag, or by a plain string for a unit variant
DefaultEnum(ty, n, tagged_already) ==
    IF tagged_already
    THEN IF n.k = "scalar" THEN visit_str(ty, n.text) ELSE NestedEnumError
    ELSE IF n.tag # NoTag
    THEN LET i == FindTag(ty.variants, n.tag)
         IN  IF i = 0 THEN UnknownVariant
             ELSE DeserializePayload(ty.variants[i], n, "plain", TRUE)
    ELSE IF n.k = "scalar" THEN visit_str(ty, n.text)
    ELSE InvalidType

Deserialize(ty, n, m, tagged_already) ==
    CASE ty.t = "i64" ->
            IF /\ n.k = "scalar" /\ Untagged(n, tagged_already)
               /\ n.style = "Plain" /\ UntaggedScalarKind(n.text) = "int"
            THEN IntV(n.text) ELSE InvalidType
      [] ty.t = "str" ->
            IF n.k = "scalar" /\ Untagged(n, tagged_already)
            THEN StrV(n.text) ELSE InvalidType
      [] ty.t = "option" ->
            IF IsNull(n, tagged_already) THEN NoneV
            ELSE LET r == Deserialize(ty.of, n, m, tagged_already)
                 IN  IF IsError(r) THEN r ELSE SomeV(r)
      [] ty.t = "seq" ->
            IF n.k = "seq" /\ Untagged(n, tagged_already)
                           /\ Len(n.items) = Len(ty.items)
            THEN LET r == DeserializeItems(ty.items, n.items, Child(m), <<>>)
                 IN  IF IsError(r) THEN r ELSE SeqV(r.items)
            ELSE InvalidType
      [] ty.t = "map" ->
            IF n.k = "map" /\ Untagged(n, tagged_already)
                           /\ Len(n.entries) = Len(ty.entries)
            THEN LET r == DeserializeEntries(ty.entries, n.entries, Child(m),
                                             <<>>)
                 IN  IF IsError(r) THEN r
                     ELSE MapV(ty.len1, ty.entry, r.items)
            ELSE InvalidType
      [] ty.t = "struct" ->
            IF n.k = "map" /\ Untagged(n, tagged_already)
                           /\ Len(n.entries) = Len(ty.fields)
            THEN LET r == DeserializeFields(ty.fields, n.entries, Child(m),
                                            <<>>)
                 IN  IF IsError(r) THEN r ELSE StructV(r.items)
            ELSE InvalidType
      [] ty.t = "enum" ->
            IF m = "plain" THEN DefaultEnum(ty, n, tagged_already)
            ELSE deserialize_enum(ty, n, m)
      [] OTHER -> InvalidType

DeserializeItems(tys, nodes, m, acc) ==
    IF nodes = <<>> THEN [k |-> "items", items |-> acc]
    ELSE LET r == Deserialize(Head(tys), Head(nodes), m, FALSE)
         IN  IF IsError(r) THEN r
             ELSE DeserializeItems(Tail(tys), Tail(nodes), m, Append(acc, r))

DeserializeEntries(tys, entries, m, acc) ==
    IF entries = <<>> THEN [k |-> "items", items |-> acc]
    ELSE LET key == Deserialize(Head(tys).key, Head(entries).key, m, FALSE)
             value == Deserialize(Head(tys).value, Head(entries).value, m,
                                  FALSE)
         IN  IF IsError(key) THEN key
             ELSE IF IsError(value) THEN value
             ELSE DeserializeEntries(Tail(tys), Tail(entries), m,
                                     Append(acc, KV(key, value)))

DeserializeFields(fields, entries, m, acc) ==
    IF entries = <<>> THEN [k |-> "items", items |-> acc]
    ELSE LET key == Head(entries).key
             value == Deserialize(Head(fields).value, Head(entries).value, m,
                                  FALSE)
         IN  IF key.k # "scalar" \/ key.text # Head(fields).name
             THEN Error("unknown field")
             ELSE IF IsError(value) THEN value
             ELSE DeserializeFields(Tail(fields), Tail(entries), m,
                                    Append(acc, Field(key.text, value)))

\* from_str, or the proxy's deserialize, on a loaded document
from_node(ty, n, m) ==
    IF n = NoNode THEN SyntaxError ELSE Deserialize(ty, n, m, FALSE)

\* ------------------------------------------------------------------------
\* Documents decoded through the proxies: the enum of tests/test_with.rs
\* ------------------------------------------------------------------------
MyEnum ==
    TEnum(<<Variant("Unit", "unit", TUnit),
            Variant("Newtype", "newtype", TInt),
            Variant("Tuple", "tuple", TSeq(<<TInt, TInt>>)),
            Variant("Struct", "struct", TStruct(<<Field("value", TInt)>>))>>)

Plain(text) == ScalarNode(NoTag, text, "Plain")

KeyTexts == {"Unit", "Newtype", "Tuple", "Struct", "Other"}

PayloadNodes ==
    {Plain("null"), Plain("1"), Plain("x"),
     SeqNode(NoTag, <<Plain("1"), Plain("2")>>),
     MapNode(NoTag, <<KV(Plain("value"), Plain("1"))>>)}

Documents ==
    {MapNode(NoTag, <<>>), Plain("Unit"), Plain("Newtype"), Plain("1"),
     Plain("null")}
    \cup {MapNode(NoTag, <<KV(Plain(k), p)>>) :
            k \in KeyTexts, p \in PayloadNodes}
    \cup {MapNode(NoTag, <<KV(Plain(k), p), KV(Plain(k2), Plain("1"))>>) :
            k \in KeyTexts, p \in PayloadNodes, k2 \in {"Newtype", "x"}}

\* ------------------------------------------------------------------------
\* Number (number.rs)
\* ------------------------------------------------------------------------
\* the widths of the integer types, cut down from 16, 32 and 64 bits
I16Bits == 2

I32Bits == 3

I64Bits == 4

RECURSIVE Pow2(_)
Pow2(n) == IF n = 0 THEN 1 ELSE 2 * Pow2(n - 1)

I16_MAX == Pow2(I16Bits - 1) - 1

I16_MIN == 0 - Pow2(I16Bits - 1)

I32_MAX == Pow2(I32Bits - 1) - 1

I32_MIN == 0 - Pow2(I32Bits - 1)

U32_MAX == Pow2(I32Bits) - 1

I64_MAX == Pow2(I64Bits - 1) - 1

I64_MIN == 0 - Pow2(I64Bits - 1)

U64_MAX == Pow2(I64Bits) - 1

\* where Numbers are only compared, integers and finite floats of
\* magnitudes up to MaxMagnitude stand for all; the u64 values reach one past
\* the i64 values
MaxMagnitude == 1

I64Values == (0 - MaxMagnitude)..MaxMagnitude

U64Values == 0..(MaxMagnitude + 1)

\* an f64 in sign-magnitude form: a finite value is (-1)^sign * mag / 2, so
\* that +0.0 and -0.0 differ in `sign` only; the mag of a NaN is its payload
F64(sign, class, mag) == [sign |-> sign, class |-> class, mag |-> mag]

F64_NAN == F64(0, "nan", 0)

\* every i64, every u64, and the floats up to one past u32::MAX
I64Range == I64_MIN..I64_MAX

U64Range == 0..U64_MAX

F64Range ==
    {F64(sg, "finite", m) : sg \in {0, 1}, m \in 0..(2 * U32_MAX + 3)}
        \cup {F64(sg, "infinite", 0) : sg \in {0, 1}}
        \cup {F64(sg, "nan", m) : sg \in {0, 1}, m \in {0, 1}}

F64Values ==
    {F64(sg, "finite", m) : sg \in {0, 1}, m \in 0..MaxMagnitude}
        \cup {F64(sg, "infinite", 0) : sg \in {0, 1}}
        \cup {F64(sg, "nan", m) : sg \in {0, 1}, m \in {0, 1}}

is_nan(f) == f.class = "nan"

\* an infinity is beyond every finite float of the model
InfiniteHalves == 2 * U64_MAX + MaxMagnitude + 1

\* the place of a float that is not NaN on the real line, in halves
HalvesOf(f) ==
    LET m == IF f.class = "infinite" THEN InfiniteHalves ELSE f.mag
    IN  IF f.sign = 1 THEN 0 - m ELSE m

Less == "Less"

Equal == "Equal"

Greater == "Greater"

NoOrdering == "None"

\* Ord::cmp on integers
cmp(a, b) == IF a < b THEN Less ELSE IF a > b THEN Greater ELSE Equal

\* f64::partial_cmp: the IEEE 754 comparison, None when either side is NaN,
\* -0.0 equal to +0.0
f64_partial_cmp(a, b) ==
    IF is_nan(a) \/ is_nan(b) THEN NoOrdering
    ELSE cmp(HalvesOf(a), HalvesOf(b))

\* enum N
PositiveInteger(u) == [t |-> "PositiveInteger", i |-> u, f |-> F64_NAN]

NegativeInteger(i) == [t |-> "NegativeInteger", i |-> i, f |-> F64_NAN]

Float(f) == [t |-> "Float", i |-> 0, f |-> f]

\* struct Number { n: N }
Number(n) == [n |-> n]

\* zero taken for a negative value
from_i64_zero_negative(i) ==
    IF i <= 0 THEN Number(NegativeInteger(i)) ELSE Number(PositiveInteger(i))

\* Number::from_i64 and the From impls of from_signed!
from_i64(i) ==
    IF i < 0 THEN Number(NegativeInteger(i)) ELSE Number(PositiveInteger(i))

from_u64(u) == Number(PositiveInteger(u))

from_f64_keeping_nan(f) == Number(Float(f))

\* From<f64>: a NaN loses its sign and payload
from_f64(f) == Number(Float(IF is_nan(f) THEN F64_NAN ELSE f))

\* integers and floats by their numeric value
N_total_cmp_by_value(a, b) ==
    LET halves(x) == IF x.t = "Float" THEN HalvesOf(x.f) ELSE 2 * x.i
    IN  IF a.t = "Float" /\ is_nan(a.f)
        THEN IF b.t = "Float" /\ is_nan(b.f) THEN Equal ELSE Greater
        ELSE IF b.t = "Float" /\ is_nan(b.f) THEN Less
        ELSE cmp(halves(a), halves(b))

N_total_cmp(a, b) ==
    CASE a.t = "PositiveInteger" /\ b.t = "PositiveInteger" -> cmp(a.i, b.i)
      [] a.t = "NegativeInteger" /\ b.t = "NegativeInteger" -> cmp(a.i, b.i)
      [] a.t = "NegativeInteger" /\ b.t = "PositiveInteger" -> Less
      [] a.t = "PositiveInteger" /\ b.t = "NegativeInteger" -> Greater
      [] a.t = "Float" /\ b.t = "Float" ->
            LET o == f64_partial_cmp(a.f, b.f)
            IN  IF o # NoOrdering THEN o
                ELSE IF ~is_nan(a.f) THEN Less
                ELSE IF ~is_nan(b.f) THEN Greater
                ELSE Equal
      [] a.t # "Float" /\ b.t = "Float" -> Less
      [] a.t = "Float" /\ b.t # "Float" -> Greater

total_cmp(a, b) == N_total_cmp(a.n, b.n)

\* f64 ==: the IEEE 754 equality, false when either side is NaN, true for
\* -0.0 and +0.0
f64_eq(a, b) == ~is_nan(a) /\ ~is_nan(b) /\ HalvesOf(a) = HalvesOf(b)

\* impl PartialEq for N
N_eq(a, b) ==
    CASE a.t = "PositiveInteger" /\ b.t = "PositiveInteger" -> a.i = b.i
      [] a.t = "NegativeInteger" /\ b.t = "NegativeInteger" -> a.i = b.i
      [] a.t = "Float" /\ b.t = "Float" ->
            IF is_nan(a.f) /\ is_nan(b.f) THEN TRUE ELSE f64_eq(a.f, b.f)
      [] OTHER -> FALSE

\* impl PartialOrd for N
N_partial_cmp(a, b) ==
    IF a.t = "Float" /\ b.t = "Float"
    THEN IF is_nan(a.f) /\ is_nan(b.f) THEN Equal
         ELSE f64_partial_cmp(a.f, b.f)
    ELSE N_total_cmp(a, b)

\* #[derive(PartialEq, PartialOrd)] on Number
eq(a, b) == N_eq(a.n, b.n)

partial_cmp(a, b) == N_partial_cmp(a.n, b.n)

\* a < b and a > b, PartialOrd's provided methods
lt(a, b) == partial_cmp(a, b) = Less

gt(a, b) == partial_cmp(a, b) = Greater

\* to_bits of an f64: its sign, class and magnitude or payload
to_bits(f) == f

\* impl Hash for Number: what is written to the Hasher, an integer or the
\* bits of a float
hash(a) ==
    IF a.n.t = "Float"
    THEN [float_bits |-> TRUE, int |-> 0, bits |-> to_bits(a.n.f)]
    ELSE [float_bits |-> FALSE, int |-> a.n.i, bits |-> to_bits(F64_NAN)]

\* Option<i64>, Option<u64>, Option<f64>
Some(int, float) == [some |-> TRUE, int |-> int, float |-> float]

None == [some |-> FALSE, int |-> 0, float |-> F64_NAN]

\* `n as f64` of an integer
int_as_f64(n) == F64(IF n < 0 THEN 1 ELSE 0, "finite", 2 * (IF n < 0 THEN 0 - n ELSE n))

is_i64(a) ==
    CASE a.n.t = "PositiveInteger" -> a.n.i <= I64_MAX
      [] a.n.t = "NegativeInteger" -> TRUE
      [] a.n.t = "Float" -> FALSE

is_u64(a) == a.n.t = "PositiveInteger"

is_f64(a) == a.n.t = "Float"

as_i64_below_max(a) ==
    CASE a.n.t = "PositiveInteger" ->
            IF a.n.i < I64_MAX THEN Some(a.n.i, F64_NAN) ELSE None
      [] a.n.t = "NegativeInteger" -> Some(a.n.i, F64_NAN)
      [] a.n.t = "Float" -> None

as_i64(a) ==
    CASE a.n.t = "PositiveInteger" ->
            IF a.n.i <= I64_MAX THEN Some(a.n.i, F64_NAN) ELSE None
      [] a.n.t = "NegativeInteger" -> Some(a.n.i, F64_NAN)
      [] a.n.t = "Float" -> None

as_u64(a) ==
    IF a.n.t = "PositiveInteger" THEN Some(a.n.i, F64_NAN) ELSE None

as_f64(a) ==
    IF a.n.t = "Float" THEN Some(0, a.n.f) ELSE Some(0, int_as_f64(a.n.i))

\* f64::trunc: the fraction dropped, the sign kept
trunc(f) ==
    IF f.class = "finite" THEN F64(f.sign, "finite", 2 * (f.mag \div 2)) ELSE f

\* `truncated as i32` of a whole float in the range of the target
f64_as_int(f) == HalvesOf(f) \div 2

f64_gt(a, b) == f64_partial_cmp(a, b) = Greater

f64_lt(a, b) == f64_partial_cmp(a, b) = Less

is_sign_negative(f) == f.sign = 1

min(a, b) == IF a <= b THEN a ELSE b

\* `u as i32` of a u64 without the clamp: the low bits, as a signed number
to_i32_wrapping(a) ==
    IF a.n.t = "PositiveInteger"
    THEN ((a.n.i + Pow2(I32Bits - 1)) % Pow2(I32Bits)) - Pow2(I32Bits - 1)
    ELSE 0

\* to_i16_saturating and to_i32_saturating, for the bounds of the target
to_signed_saturating(a, MIN, MAX) ==
    CASE a.n.t = "PositiveInteger" -> min(a.n.i, MAX)
      [] a.n.t = "NegativeInteger" -> IF a.n.i < MIN THEN MIN ELSE a.n.i
      [] a.n.t = "Float" ->
            IF is_nan(a.n.f) THEN 0
            ELSE LET truncated == trunc(a.n.f)
                 IN  IF f64_gt(truncated, int_as_f64(MAX)) THEN MAX
                     ELSE IF f64_lt(truncated, int_as_f64(MIN)) THEN MIN
                     ELSE f64_as_int(truncated)

to_i32_saturating_unclamped(a) ==
    IF a.n.t = "PositiveInteger" THEN to_i32_wrapping(a)
    ELSE to_signed_saturating(a, I32_MIN, I32_MAX)

to_i32_saturating(a) == to_signed_saturating(a, I32_MIN, I32_MAX)

to_i16_saturating(a) == to_signed_saturating(a, I16_MIN, I16_MAX)

to_u32_saturating(a) ==
    CASE a.n.t = "PositiveInteger" -> min(a.n.i, U32_MAX)
      [] a.n.t = "NegativeInteger" -> 0
      [] a.n.t = "Float" ->
            IF is_nan(a.n.f) \/ is_sign_negative(a.n.f) THEN 0
            ELSE LET truncated == trunc(a.n.f)
                 IN  IF f64_gt(truncated, int_as_f64(U32_MAX)) THEN U32_MAX
                     ELSE f64_as_int(truncated)

\* `f as f64` of an f32: the value, and the sign and payload of a NaN, kept
f32_as_f64(f) == f

\* impl From<f32> for Number
from_f32(f) == from_f64(f32_as_f64(f))

\* NumberVisitor
NumberVisitor_visit_i64(value) == from_i64(value)

NumberVisitor_visit_u64(value) == from_u64(value)

NumberVisitor_visit_f64(value) == from_f64(value)

\* the integer grammar of crate::de::visit_int: an optional sign, then
\* decimal digits without a leading zero, or 0x, 0o, 0b and digits
RadixDigits == "0123456789abcdef"

DigitValue(c) == (CHOOSE i \in 1..Len(RadixDigits) : CharAt(RadixDigits, i) = c) - 1

IsDigitsIn(radix, body) ==
    /\ body # ""
    /\ \A i \in 1..Len(body) :
          \E d \in 1..radix : CharAt(RadixDigits, d) = CharAt(body, i)

RECURSIVE ValueIn(_, _)
ValueIn(radix, body) ==
    IF body = "" THEN 0
    ELSE radix * ValueIn(radix, SubSeq(body, 1, Len(body) - 1))
            + DigitValue(CharAt(body, Len(body)))

RadixOf(body) ==
    CASE Len(body) > 2 /\ SubSeq(body, 1, 2) = "0x" -> 16
      [] Len(body) > 2 /\ SubSeq(body, 1, 2) = "0o" -> 8
      [] Len(body) > 2 /\ SubSeq(body, 1, 2) = "0b" -> 2
      [] OTHER -> 10

IsNegative(text) == text # "" /\ CharAt(text, 1) = "-"

MatchesInteger(text) ==
    LET body == WithoutSign(text)
    IN  IF RadixOf(body) = 10 THEN IsInteger(text)
        ELSE IsDigitsIn(RadixOf(body), SubSeq(body, 3, Len(body)))

IntegerOf(text) ==
    LET body == WithoutSign(text)
        digits == IF RadixOf(body) = 10 THEN body
                  ELSE SubSeq(body, 3, Len(body))
        v == ValueIn(RadixOf(body), digits)
    IN  IF IsNegative(text) THEN 0 - v ELSE v

\* crate::de::visit_int with NumberVisitor: visit_u64 of a value that is
\* not negative, visit_i64 of a negative one
visit_int(text) ==
    IF IntegerOf(text) < 0 THEN NumberVisitor_visit_i64(IntegerOf(text))
    ELSE NumberVisitor_visit_u64(IntegerOf(text))

\* crate::de::digits_but_not_number: digits after a leading zero
digits_but_not_number(text) ==
    LET body == WithoutSign(text)
    IN  Len(body) > 1 /\ CharAt(body, 1) = "0"
            /\ AllDigits(SubSeq(body, 2, Len(body)))

\* crate::de::parse_f64: the names of the special floats, or digits, a
\* point and digits (here a fraction of .0 or .5)
parse_f64(text) ==
    LET body == WithoutSign(text)
        sign == IF IsNegative(text) THEN 1 ELSE 0
        point == CHOOSE i \in 1..Len(body) : CharAt(body, i) = "."
        whole == ValueIn(10, SubSeq(body, 1, point - 1))
        half == IF SubSeq(body, point + 1, Len(body)) = "5" THEN 1 ELSE 0
    IN  CASE text \in {".nan", ".NaN", ".NAN"} -> F64_NAN
          [] body \in {".inf", ".Inf", ".INF"} -> F64(sign, "infinite", 0)
          [] OTHER -> F64(sign, "finite", 2 * whole + half)

\* Result<Number, Error>
ParseResult(ok, n, err) == [ok |-> ok, number |-> n, err |-> err]

FailedToParseNumber == "FailedToParseNumber"

FailedToParseFloat == "FailedToParseFloat"

NoNumber == Number(PositiveInteger(0))

\* the float grammar tried before the integer grammar
from_str_float_first(repr) ==
    IF IsFloat(repr) \/ MatchesInteger(repr)
    THEN ParseResult(TRUE,
                     from_f64(IF IsFloat(repr) THEN parse_f64(repr)
                              ELSE parse_f64(repr \o ".0")), Ok)
    ELSE IF digits_but_not_number(repr)
    THEN ParseResult(FALSE, NoNumber, FailedToParseNumber)
    ELSE ParseResult(FALSE, NoNumber, FailedToParseFloat)

\* impl FromStr for Number
from_str(repr) ==
    IF MatchesInteger(repr) THEN ParseResult(TRUE, visit_int(repr), Ok)
    ELSE IF digits_but_not_number(repr)
    THEN ParseResult(FALSE, NoNumber, FailedToParseNumber)
    ELSE IF IsFloat(repr) THEN ParseResult(TRUE, from_f64(parse_f64(repr)), Ok)
    ELSE ParseResult(FALSE, NoNumber, FailedToParseFloat)

\* itoa and `{}` of an integer: its decimal digits
RECURSIVE Decimal(_)
Decimal(n) ==
    IF n < 0 THEN "-" \o Decimal(0 - n)
    ELSE IF n < 10 THEN CharAt(Digits, n + 1)
    ELSE Decimal(n \div 10) \o CharAt(Digits, (n % 10) + 1)

\* ryu: the shortest decimal text of a finite float that reads back as it
format_finite(f) ==
    (IF f.sign = 1 THEN "-" ELSE "")
        \o Decimal(f.mag \div 2)
        \o (IF f.mag % 2 = 1 THEN ".5" ELSE ".0")

\* ryu's own text of a float that is not finite
format_any(f) ==
    CASE f.class = "nan" -> "NaN"
      [] f.class = "infinite" -> IF f.sign = 1 THEN "-inf" ELSE "inf"
      [] OTHER -> format_finite(f)

\* impl Display for Number
Number_fmt(a) ==
    CASE a.n.t \in {"PositiveInteger", "NegativeInteger"} -> Decimal(a.n.i)
      [] a.n.t = "Float" /\ is_nan(a.n.f) -> ".nan"
      [] a.n.t = "Float" /\ a.n.f.class = "infinite" ->
            IF is_sign_negative(a.n.f) THEN "-.inf" ELSE ".inf"
      [] OTHER -> format_finite(a.n.f)

\* serialize_f32 and serialize_f64 without the YAML names
serialize_f64_unnamed(s, v) == emit_scalar(s, format_any(v), "Plain")

\* v.classify() picks the text, the style is Plain
serialize_f64(s, v) ==
    emit_scalar(s,
                CASE v.class = "infinite" /\ ~is_sign_negative(v) -> ".inf"
                  [] v.class = "infinite" -> "-.inf"
                  [] v.class = "nan" -> ".nan"
                  [] OTHER -> format_finite(v),
                "Plain")

serialize_f32(s, v) ==
    emit_scalar(s,
                CASE v.class = "infinite" /\ ~is_sign_negative(v) -> ".inf"
                  [] v.class = "infinite" -> "-.inf"
                  [] v.class = "nan" -> ".nan"
                  [] OTHER -> format_finite(v),
                "Plain")

\* an f32, an f64 or a Number as the value to encode
FloatV(k, f) == [k |-> k, float |-> f]

\* impl Serialize for Number, and for f32 and f64
NumberCalls(v) ==
    CASE v.k = "f32" -> <<Call("serialize_f32", "", FALSE)>>
      [] v.k = "f64" -> <<Call("serialize_f64", "", FALSE)>>
      [] v.k = "PositiveInteger" ->
            <<Call("serialize_u64", Decimal(v.int), FALSE)>>
      [] v.k = "NegativeInteger" ->
            <<Call("serialize_i64", Decimal(v.int), FALSE)>>
      [] v.k = "Float" -> <<Call("serialize_f64", "", FALSE)>>

\* the Number a as the value to encode
NumberV(a) == [k |-> a.n.t, float |-> a.n.f, int |-> a.n.i]

\* what the method of a Number called last was given and returned
NoReturn ==
    [op |-> "none", ordering |-> NoOrdering, flag |-> FALSE, some |-> FALSE,
     int |-> 0, float |-> F64_NAN, text |-> "", err |-> Ok]

\* the comparison made last: the operands' places in `numbers`, the result
Comparison(i, j, o) == [i |-> i, j |-> j, ordering |-> o]

NoComparison == Comparison(0, 0, NoOrdering)

\* ------------------------------------------------------------------------
\* The state machine
\* ------------------------------------------------------------------------
VARIABLES
    ser,        \* the Serializer
    config,     \* SerializerConfig.tag_unit_variants
    val,        \* the value being serialized
    mode,       \* the proxy the value is serialized through
    calls,      \* calls its Serialize implementation has still to make
    locals,     \* `tagged` of each serialize_entry in progress
    decoded,    \* the last document decoded and what it decoded to
    phase,      \* "idle", "running", "done", "failed" or "decoded"
    before,     \* the Serializer as it was when the value began
    numbers,    \* the Numbers constructed so far
    compared,   \* the last comparison of two of them
    returned,   \* what the method of a Number called last returned
    second,     \* a second Serializer and the operation running on it
    stream      \* the stream the Serializer writes: how it was opened, the
                \* events of its earlier values, whether the Serializer is
                \* gone

vars == <<ser, config, val, mode, calls, locals, decoded, phase, before,
          numbers, compared, returned, second, stream>>

NumberVars == <<numbers, compared, returned>>

Modes == {"plain", "singleton_map", "singleton_map_recursive"}

ProxyModes == {"singleton_map", "singleton_map_recursive"}

\* the Options a field with singleton_map_optional can hold
OptionalValues == {v \in Values : v.k \in {"none", "some"}}

NothingDecoded ==
    [doc |-> NoNode, ty |-> TUnit, proxy |-> "plain", result |-> NoNode]

CallsFor(v, m) ==
    CASE m = "plain" -> Calls(v)
      [] m = "singleton_map" -> SingletonMapCalls(v)
      [] m = "singleton_map_recursive" -> SingletonMapRecursiveCalls(v)
      [] m = "singleton_map_optional" -> SingletonMapOptionalCalls(v)

MaxCarriedDepth == 1

\* a Serializer of its own: its fields, its configuration, and the
\* operation that runs on it
Instance(s, tag_unit_variants, v, cs, ls, ph) ==
    [ser |-> s, config |-> tag_unit_variants, val |-> v, calls |-> cs,
     locals |-> ls, phase |-> ph]

\* the stream of a Serializer: entry is how the Serializer was built ("new"
\* by the caller, "to_writer" inside to_writer), events are what the
\* emitter was handed before the value at hand (whose events are
\* ser.events), over is set once the Serializer is consumed or dropped
Stream(entry, events, over) ==
    [entry |-> entry, events |-> events, over |-> over]

NoSecond == Instance(new_with_config, FALSE, NoneV, <<>>, <<>>, "idle")

Init ==
    /\ ser = new_with_config
    /\ config \in BOOLEAN
    /\ val = NoneV
    /\ mode = "plain"
    /\ calls = <<>>
    /\ locals = <<>>
    /\ decoded = NothingDecoded
    /\ phase = "idle"
    /\ before = new_with_config
    /\ numbers = <<>>
    /\ compared = NoComparison
    /\ returned = NoReturn
    /\ second = NoSecond
    /\ stream = Stream("new", <<StreamStart>>, FALSE)

\* value.serialize(&mut serializer) is called: by to_writer on a new
\* Serializer, or by the caller on a Serializer that encoded a value before
Begin(v, m) ==
    /\ phase = "idle"
    /\ val' = v
    /\ mode' = m
    /\ calls' = CallsFor(v, m)
    /\ locals' = <<>>
    /\ phase' = "running"
    /\ before' = ser
    /\ UNCHANGED <<ser, config, decoded, NumberVars, second, stream>>

\* the caller keeps the Serializer for a further value; `events` holds the
\* events of one top-level value
NextValue ==
    /\ phase = "done"
    /\ ser.depth <= MaxCarriedDepth
    /\ ser' = [ser EXCEPT !.events = <<>>]
    /\ val' = NoneV
    /\ mode' = "plain"
    /\ phase' = "idle"
    /\ before' = ser'
    /\ UNCHANGED <<config, calls, locals, decoded, NumberVars, second, stream>>

\* with::singleton_map::deserialize and with::singleton_map_recursive::
\* deserialize on a document, for a field of type ty
FromStr(n, ty, m) ==
    /\ phase = "idle"
    /\ decoded' = [doc |-> n, ty |-> ty, proxy |-> m,
                   result |-> from_node(ty, n, m)]
    /\ phase' = "decoded"
    /\ UNCHANGED <<ser, config, val, mode, calls, locals, before, NumberVars, second, stream>>

\* the caller takes the result
TakeResult ==
    /\ phase = "decoded"
    /\ decoded' = NothingDecoded
    /\ phase' = "idle"
    /\ UNCHANGED <<ser, config, val, mode, calls, locals, before, NumberVars, second, stream>>

Running(op) == phase = "running" /\ calls # <<>> /\ Head(calls).op = op

\* an Err is dropped and the next call is made
Return_ignoring_err(s) ==
    /\ ser' = s
    /\ calls' = Tail(calls)
    /\ phase' = IF Tail(calls) = <<>> THEN "done" ELSE "running"
    /\ UNCHANGED <<config, val, mode, before, decoded, NumberVars, second, stream>>

\* the method returned s; an Err aborts the whole operation
Return(s) ==
    /\ ser' = s
    /\ calls' = IF s.err # Ok THEN <<>> ELSE Tail(calls)
    /\ phase' = IF s.err # Ok THEN "failed"
                ELSE IF Tail(calls) = <<>> THEN "done" ELSE "running"
    /\ UNCHANGED <<config, val, mode, before, decoded, NumberVars, second, stream>>

SerializeI64 ==
    /\ Running("serialize_i64")
    /\ Return(serialize_i64(ser, Head(calls).text))
    /\ UNCHANGED locals

SerializeStr ==
    /\ Running("serialize_str")
    /\ Return(serialize_str(ser, Head(calls).text))
    /\ UNCHANGED locals

SerializeNone ==
    /\ Running("serialize_none")
    /\ Return(serialize_none(ser))
    /\ UNCHANGED locals

SerializeBytes ==
    /\ Running("serialize_bytes")
    /\ Return(serialize_bytes(ser))
    /\ UNCHANGED locals

SerializeUnitVariant ==
    /\ Running("serialize_unit_variant")
    /\ Return(serialize_unit_variant(ser, config, Head(calls).text))
    /\ UNCHANGED locals

SerializeNewtypeVariant ==
    /\ Running("serialize_newtype_variant")
    /\ Return(serialize_newtype_variant(ser, Head(calls).text))
    /\ UNCHANGED locals

SerializeSeq ==
    /\ Running("serialize_seq")
    /\ Return(serialize_seq(ser))
    /\ UNCHANGED locals

SerializeTupleVariant ==
    /\ Running("serialize_tuple_variant")
    /\ Return(serialize_tuple_variant(ser, Head(calls).text))
    /\ UNCHANGED locals

SerializeMap ==
    /\ Running("serialize_map")
    /\ Return(serialize_map(ser, Head(calls).flag))
    /\ UNCHANGED locals

SerializeStruct ==
    /\ Running("serialize_struct")
    /\ Return(serialize_struct(ser))
    /\ UNCHANGED locals

SerializeStructVariant ==
    /\ Running("serialize_struct_variant")
    /\ Return(serialize_struct_variant(ser, Head(calls).text))
    /\ UNCHANGED locals

CollectStr ==
    /\ Running("collect_str")
    /\ Return(collect_str(ser, Head(calls).text, Head(calls).flag))
    /\ UNCHANGED locals

SerializeKey ==
    /\ Running("serialize_key")
    /\ Return(serialize_key(ser))
    /\ UNCHANGED locals

\* serialize_entry, after key.serialize returned Ok
SerializeEntryKeyDone ==
    /\ Running("entry_mid")
    /\ locals' = <<serialize_entry_tagged(ser)>> \o locals
    /\ Return(ser)

\* serialize_entry, after value.serialize returned Ok
SerializeEntryValueDone ==
    /\ Running("entry_end")
    /\ locals' = Tail(locals)
    /\ Return(serialize_entry_finish(ser, Head(locals)))

MapEnd ==
    /\ Running("map_end")
    /\ Return(map_end(ser))
    /\ UNCHANGED locals

SeqEnd ==
    /\ Running("seq_end")
    /\ Return(seq_end(ser))
    /\ UNCHANGED locals

StructSerializeField ==
    /\ Running("struct_field")
    /\ Return(struct_serialize_field(ser, Head(calls).text))
    /\ UNCHANGED locals

StructEnd ==
    /\ Running("struct_end")
    /\ Return(struct_end(ser))
    /\ UNCHANGED locals

Next ==
    \/ (phase = "idle" /\ \E v \in Values, m \in Modes : Begin(v, m))
    \/ (phase = "idle" /\ \E v \in OptionalValues :
            Begin(v, "singleton_map_optional"))
    \/ NextValue
    \/ (phase = "idle" /\ \E n \in Documents, m \in ProxyModes :
            FromStr(n, MyEnum, m))
    \/ (phase = "idle" /\ \E n \in Documents :
            FromStr(n, TOption(MyEnum), "singleton_map_optional"))
    \/ TakeResult
    \/ SerializeI64
    \/ SerializeStr
    \/ SerializeNone
    \/ SerializeBytes
    \/ SerializeUnitVariant
    \/ SerializeNewtypeVariant
    \/ SerializeSeq
    \/ SerializeTupleVariant
    \/ SerializeMap
    \/ SerializeStruct
    \/ SerializeStructVariant
    \/ CollectStr
    \/ SerializeKey
    \/ SerializeEntryKeyDone
    \/ SerializeEntryValueDone
    \/ MapEnd
    \/ SeqEnd
    \/ StructSerializeField
    \/ StructEnd

Spec == Init /\ [][Next]_vars

\* ------------------------------------------------------------------------
\* Strings: the Serializer driven by values made of strings, as scalars, as
\* sequence elements, as map keys and values, as struct field names and as
\* the payload of a variant
\* ------------------------------------------------------------------------
Texts ==
    {"y", "Y", "yes", "Yes", "YES", "n", "No", "true", "TRUE", "False",
     "on", "On", "OFF",
     "yEs", "yeS", "nO", "tRuE", "fAlSe", "oN", "oFf",
     "x", "hello", "A", "yes please", "nope",
     "", "null", "~", "nUlL", "42", "-1", "1.5", ".nan",
     "a\nb", "yes\nno", "1\n2", "~\n"}

ValueTexts == {"x", "y", "2"}

StrValues ==
    {StrV(t) : t \in Texts}
    \cup {Display(t, FALSE) : t \in Texts}
    \cup {NewtypeVariant("B", StrV(t)) : t \in Texts}
    \cup {SeqV(<<StrV(t)>>) : t \in Texts}
    \cup {MapV(FALSE, FALSE, <<KV(StrV(t), StrV(t))>>) : t \in Texts}
    \cup {MapV(TRUE, TRUE, <<KV(StrV(t), NewtypeVariant("B", StrV(t)))>>) :
             t \in Texts}
    \cup {StructV(<<Field(t, StrV(u))>>) : t \in Texts, u \in ValueTexts}
    \cup {MapV(TRUE, TRUE, <<KV(StrV(t), StrV(u))>>) :
             t \in Texts, u \in ValueTexts}
    \cup {StructV(<<Field("x", IntV("1")), Field("y", IntV("2"))>>)}

NextStr ==
    \/ (phase = "idle" /\ \E v \in StrValues : Begin(v, "plain"))
    \/ NextValue
    \/ SerializeI64
    \/ SerializeStr
    \/ SerializeNewtypeVariant
    \/ SerializeSeq
    \/ SerializeMap
    \/ SerializeStruct
    \/ CollectStr
    \/ SerializeKey
    \/ SerializeEntryKeyDone
    \/ SerializeEntryValueDone
    \/ MapEnd
    \/ SeqEnd
    \/ StructSerializeField
    \/ StructEnd

SpecStr == Init /\ [][NextStr]_vars

\* ------------------------------------------------------------------------
\* Numbers: a caller constructs Numbers and compares them
\* ------------------------------------------------------------------------
MaxNumbers == 3

First == <<ser, config, val, mode, calls, locals, decoded, phase, before>>

Encoder == <<First, second, stream>>

Construct(n) ==
    /\ Len(numbers) < MaxNumbers
    /\ numbers' = Append(numbers, n)
    /\ compared' = NoComparison
    /\ returned' = NoReturn
    /\ UNCHANGED Encoder

\* Number::from_i64 and From<i8 .. i64, isize>
FromI64(i) == Construct(from_i64(i))

\* Number::from_u64 and From<u8 .. u64, usize>
FromU64(u) == Construct(from_u64(u))

\* From<f64>, and From<f32> through it
FromF64(f) == Construct(from_f64(f))

\* a.total_cmp(&b) on the two Numbers constructed last
TotalCmp ==
    /\ Len(numbers) >= 2
    /\ compared = NoComparison
    /\ LET i == Len(numbers) - 1
           j == Len(numbers)
       IN  compared' = Comparison(i, j, total_cmp(numbers[i], numbers[j]))
    /\ UNCHANGED <<numbers, returned>>
    /\ UNCHANGED Encoder

\* the caller drops the Numbers
DropNumbers ==
    /\ numbers # <<>>
    /\ numbers' = <<>>
    /\ compared' = NoComparison
    /\ returned' = NoReturn
    /\ UNCHANGED Encoder

NextNumber ==
    \/ \E i \in I64Values : FromI64(i)
    \/ \E u \in U64Values : FromU64(u)
    \/ \E f \in F64Values : FromF64(f)
    \/ TotalCmp
    \/ DropNumbers

SpecNumber == Init /\ [][NextNumber]_vars

\* ------------------------------------------------------------------------
\* Numbers: a caller constructs the operands of a method and calls it
\* ------------------------------------------------------------------------
\* a method of a Number has the Number itself and at most one other operand
Operands == 2

\* the texts given to Number::from_str
NumberTexts ==
    {"0", "1", "-1", "+1", "7", "-0", "0x1", "0xf", "0o7", "0b1", "-0x1",
     "01", "-01", "007", "0.5", "-0.5", "1.0", "1.5", "+1.5", "0.0", "-0.0",
     ".nan", ".NaN", ".NAN", ".inf", ".Inf", "-.inf", "+.inf",
     "abc", "", "++1", "1.2.3", "0x0x0", "-", ".", "0x", "inf", "nan"}

\* the constructor op, given the input r, returned n
Constructs(op, r, n) ==
    /\ Len(numbers) < Operands
    /\ numbers' = Append(numbers, n)
    /\ returned' = [r EXCEPT !.op = op]
    /\ UNCHANGED compared
    /\ UNCHANGED Encoder

\* Number::from_i64 and From<i8 .. i64, isize>
OperandFromI64(i) ==
    Constructs("from_i64", [NoReturn EXCEPT !.int = i], from_i64(i))

\* Number::from_u64 and From<u8 .. u64, usize>
OperandFromU64(u) ==
    Constructs("from_u64", [NoReturn EXCEPT !.int = u], from_u64(u))

OperandFromF64(f) ==
    Constructs("from_f64", [NoReturn EXCEPT !.float = f], from_f64(f))

OperandFromF32(f) ==
    Constructs("from_f32", [NoReturn EXCEPT !.float = f], from_f32(f))

\* Number::deserialize: the Deserializer calls one method of NumberVisitor
OperandVisitI64(i) ==
    Constructs("visit_i64", [NoReturn EXCEPT !.int = i],
               NumberVisitor_visit_i64(i))

OperandVisitU64(u) ==
    Constructs("visit_u64", [NoReturn EXCEPT !.int = u],
               NumberVisitor_visit_u64(u))

OperandVisitF64(f) ==
    Constructs("visit_f64", [NoReturn EXCEPT !.float = f],
               NumberVisitor_visit_f64(f))

\* Number::from_str(repr): the Number of an Ok, nothing of an Err
OperandFromStr(repr) ==
    LET r == from_str(repr)
    IN  /\ Len(numbers) < Operands
        /\ numbers' = IF r.ok THEN Append(numbers, r.number) ELSE numbers
        /\ returned' = [NoReturn EXCEPT !.op = "from_str", !.text = repr,
                                        !.some = r.ok, !.err = r.err]
        /\ UNCHANGED compared
        /\ UNCHANGED Encoder

\* the method op of the Number constructed last returned r
Returns(op, r) ==
    /\ numbers # <<>>
    /\ returned' = [r EXCEPT !.op = op]
    /\ UNCHANGED <<numbers, compared>>
    /\ UNCHANGED Encoder

Left == numbers[Len(numbers) - 1]

Right == numbers[Len(numbers)]

\* a.partial_cmp(&b) and a == b on the two Numbers constructed last
Compare ==
    /\ Len(numbers) >= 2
    /\ Returns("compare", [NoReturn EXCEPT !.ordering = partial_cmp(Left, Right),
                                           !.flag = eq(Left, Right)])

\* b.hash(&mut hasher) on the Number constructed last
Hash ==
    LET h == hash(Right)
    IN  Returns("hash", [NoReturn EXCEPT !.flag = h.float_bits, !.int = h.int,
                                         !.float = h.bits])

\* n.is_i64() and n.as_i64(), and so for u64 and f64, on the Number
\* constructed last
Accessor(op, is, as) ==
    Returns(op, [NoReturn EXCEPT !.flag = is, !.some = as.some,
                                 !.int = as.int, !.float = as.float])

AsI64 == Accessor("as_i64", is_i64(Right), as_i64(Right))

AsU64 == Accessor("as_u64", is_u64(Right), as_u64(Right))

AsF64 == Accessor("as_f64", is_f64(Right), as_f64(Right))

\* the saturating conversions of the Number constructed last
ToI16Saturating ==
    Returns("to_i16_saturating", [NoReturn EXCEPT !.int = to_i16_saturating(Right)])

ToI32Saturating ==
    Returns("to_i32_saturating", [NoReturn EXCEPT !.int = to_i32_saturating(Right)])

ToU32Saturating ==
    Returns("to_u32_saturating", [NoReturn EXCEPT !.int = to_u32_saturating(Right)])

NextNumberOps ==
    \/ \E i \in I64Range : OperandFromI64(i)
    \/ \E u \in U64Range : OperandFromU64(u)
    \/ \E f \in F64Range : OperandFromF64(f)
    \/ \E f \in F64Range : OperandFromF32(f)
    \/ \E i \in I64Range : OperandVisitI64(i)
    \/ \E u \in U64Range : OperandVisitU64(u)
    \/ \E f \in F64Range : OperandVisitF64(f)
    \/ \E repr \in NumberTexts : OperandFromStr(repr)
    \/ Compare
    \/ Hash
    \/ AsI64
    \/ AsU64
    \/ AsF64
    \/ ToI16Saturating
    \/ ToI32Saturating
    \/ ToU32Saturating
    \/ DropNumbers

SpecNumberOps == Init /\ [][NextNumberOps]_vars

\* ------------------------------------------------------------------------
\* Floats: a caller encodes an f32, an f64 or a Number and formats a Number
\* ------------------------------------------------------------------------
\* value.serialize(&mut serializer) of an f32, an f64 or a Number
BeginNumber(v) ==
    /\ phase = "idle"
    /\ val' = v
    /\ mode' = "plain"
    /\ calls' = NumberCalls(v)
    /\ locals' = <<>>
    /\ phase' = "running"
    /\ before' = ser
    /\ UNCHANGED <<ser, config, decoded, NumberVars, second, stream>>

SerializeF32 ==
    /\ Running("serialize_f32")
    /\ Return(serialize_f32(ser, val.float))
    /\ UNCHANGED locals

SerializeF64 ==
    /\ Running("serialize_f64")
    /\ Return(serialize_f64(ser, val.float))
    /\ UNCHANGED locals

\* n.to_string() of the Number constructed last
DisplayNumber ==
    Returns("fmt", [NoReturn EXCEPT !.text = Number_fmt(Right)])

NextFloat ==
    \/ \E f \in F64Range : numbers = <<>> /\ BeginNumber(FloatV("f32", f))
    \/ \E f \in F64Range : numbers = <<>> /\ BeginNumber(FloatV("f64", f))
    \/ (numbers # <<>> /\ BeginNumber(NumberV(Right)))
    \/ SerializeF32
    \/ SerializeF64
    \/ NextValue
    \/ \E f \in F64Range : phase = "idle" /\ OperandFromF64(f)
    \/ \E f \in F64Range : phase = "idle" /\ OperandFromF32(f)
    \/ (phase = "idle" /\ DisplayNumber)
    \/ (phase = "idle" /\ DropNumbers)

SpecFloat == Init /\ [][NextFloat]_vars

\* ------------------------------------------------------------------------
\* to_writer: the whole encoding of one value by a new Serializer
\* ------------------------------------------------------------------------
Dispatch(s, c, tag_unit_variants) ==
    CASE c.op = "serialize_i64" -> serialize_i64(s, c.text)
      [] c.op = "serialize_str" -> serialize_str(s, c.text)
      [] c.op = "serialize_none" -> serialize_none(s)
      [] c.op = "serialize_bytes" -> serialize_bytes(s)
      [] c.op = "serialize_unit_variant" ->
            serialize_unit_variant(s, tag_unit_variants, c.text)
      [] c.op = "serialize_newtype_variant" ->
            serialize_newtype_variant(s, c.text)
      [] c.op = "serialize_seq" -> serialize_seq(s)
      [] c.op = "serialize_tuple_variant" -> serialize_tuple_variant(s, c.text)
      [] c.op = "serialize_map" -> serialize_map(s, c.flag)
      [] c.op = "serialize_struct" -> serialize_struct(s)
      [] c.op = "serialize_struct_variant" ->
            serialize_struct_variant(s, c.text)
      [] c.op = "collect_str" -> collect_str(s, c.text, c.flag)
      [] c.op = "serialize_key" -> serialize_key(s)
      [] c.op = "map_end" -> map_end(s)
      [] c.op = "seq_end" -> seq_end(s)
      [] c.op = "struct_field" -> struct_serialize_field(s, c.text)
      [] c.op = "struct_end" -> struct_end(s)

RECURSIVE Run(_, _, _, _)
Run(s, cs, ls, tag_unit_variants) ==
    IF cs = <<>> \/ s.err # Ok THEN s
    ELSE LET c == Head(cs)
         IN  CASE c.op = "entry_mid" ->
                    Run(s, Tail(cs), <<serialize_entry_tagged(s)>> \o ls,
                        tag_unit_variants)
               [] c.op = "entry_end" ->
                    Run(serialize_entry_finish(s, Head(ls)), Tail(cs),
                        Tail(ls), tag_unit_variants)
               [] OTHER ->
                    Run(Dispatch(s, c, tag_unit_variants), Tail(cs), ls,
                        tag_unit_variants)

to_writer(v, m, tag_unit_variants) ==
    Run(new_with_config, CallsFor(v, m), <<>>, tag_unit_variants)

\* ------------------------------------------------------------------------
\* Two Serializers: each is built by new_with_config on a writer of its own
\* and each operation takes its own Serializer by &mut; the steps of the
\* two operations interleave
\* ------------------------------------------------------------------------
TwoValues ==
    {IntV("1"),
     SeqV(<<IntV("1"), StrV("x")>>),
     MapV(TRUE, TRUE, <<KV(StrV("a"), IntV("1"))>>),
     MapV(TRUE, TRUE, <<KV(NewtypeVariant("B", IntV("1")), IntV("2"))>>),
     MapV(FALSE, FALSE, <<KV(StrV("a"), SeqV(<<IntV("1")>>))>>),
     SeqV(<<IntV("1"), NewtypeVariant("B", NewtypeVariant("B", IntV("1")))>>)}

\* Serializer::new_with_config for the second writer, and
\* value.serialize(&mut second)
BeginSecond(v, tag_unit_variants) ==
    /\ second.phase = "idle"
    /\ second' = Instance(new_with_config, tag_unit_variants, v, Calls(v),
                          <<>>, "running")
    /\ UNCHANGED <<First, NumberVars, stream>>

\* what one call does to the Serializer it is made on
MethodOn(s, c, ls, tag_unit_variants) ==
    CASE c.op = "entry_mid" -> s
      [] c.op = "entry_end" -> serialize_entry_finish(s, Head(ls))
      [] OTHER -> Dispatch(s, c, tag_unit_variants)

LocalsAfter(s, c, ls) ==
    CASE c.op = "entry_mid" -> <<serialize_entry_tagged(s)>> \o ls
      [] c.op = "entry_end" -> Tail(ls)
      [] OTHER -> ls

\* the Serializer's fields are statics that every instance reads and writes
StepSecond_on_shared_fields ==
    /\ second.phase = "running"
    /\ LET c == Head(second.calls)
           shared == [second.ser EXCEPT !.depth = ser.depth,
                                        !.state = ser.state]
           s == MethodOn(shared, c, second.locals, second.config)
       IN  /\ second' =
                 Instance(s, second.config, second.val,
                          IF s.err # Ok THEN <<>> ELSE Tail(second.calls),
                          LocalsAfter(second.ser, c, second.locals),
                          IF s.err # Ok THEN "failed"
                          ELSE IF Tail(second.calls) = <<>> THEN "done"
                          ELSE "running")
           /\ ser' = [ser EXCEPT !.depth = s.depth, !.state = s.state]
    /\ UNCHANGED <<config, val, mode, calls, locals, decoded, phase, before,
                   NumberVars, stream>>

\* the next call of the second operation, on the second Serializer (&mut
\* self): it reads and writes the fields of that instance only
StepSecond ==
    /\ second.phase = "running"
    /\ LET c == Head(second.calls)
           s == MethodOn(second.ser, c, second.locals, second.config)
       IN  second' =
               Instance(s, second.config, second.val,
                        IF s.err # Ok THEN <<>> ELSE Tail(second.calls),
                        LocalsAfter(second.ser, c, second.locals),
                        IF s.err # Ok THEN "failed"
                        ELSE IF Tail(second.calls) = <<>> THEN "done"
                        ELSE "running")
    /\ UNCHANGED <<First, NumberVars, stream>>

\* the second Serializer is dropped
DropSecond ==
    /\ second.phase \in {"done", "failed"}
    /\ second' = NoSecond
    /\ UNCHANGED <<First, NumberVars, stream>>

\* the first Serializer is dropped and a new one is built
DropFirst ==
    /\ phase \in {"done", "failed"}
    /\ ser' = new_with_config
    /\ val' = NoneV
    /\ mode' = "plain"
    /\ calls' = <<>>
    /\ locals' = <<>>
    /\ phase' = "idle"
    /\ before' = new_with_config
    /\ UNCHANGED <<config, decoded, NumberVars, second, stream>>

NextTwo ==
    \/ (phase = "idle" /\ \E v \in TwoValues : Begin(v, "plain"))
    \/ DropFirst
    \/ SerializeI64
    \/ SerializeStr
    \/ SerializeNewtypeVariant
    \/ SerializeSeq
    \/ SerializeMap
    \/ SerializeKey
    \/ SerializeEntryKeyDone
    \/ SerializeEntryValueDone
    \/ MapEnd
    \/ SeqEnd
    \/ (\E v \in TwoValues, c \in BOOLEAN : BeginSecond(v, c))
    \/ StepSecond
    \/ DropSecond

SpecTwo == Init /\ [][NextTwo]_vars

\* ------------------------------------------------------------------------
\* Methods: state and depth are public fields and the methods are public;
\* a caller assigns the fields and calls one method (tests/test_ser.rs)
\* ------------------------------------------------------------------------
States ==
    {NothingInParticular, CheckForTag, CheckForDuplicateTag, AlreadyTagged}
    \cup {FoundTag(n) : n \in {"A", "!B"}}

Depths == 0..MaxCarriedDepth

MethodCalls ==
    {Call("serialize_map", "", len1) : len1 \in BOOLEAN}
    \cup {Call("flush_mapping_start", "", FALSE),
          Call("serialize_key", "", FALSE),
          Call("map_end", "", FALSE)}
    \cup {Call("collect_str", t, tag) : t \in {"B", "x", "yes"},
                                        tag \in BOOLEAN}

\* serializer.state = st; serializer.depth = d
AssignFields(st, d) ==
    /\ phase = "idle"
    /\ ser' = [ser EXCEPT !.state = st, !.depth = d]
    /\ before' = ser'
    /\ UNCHANGED <<config, val, mode, calls, locals, decoded, phase,
                   NumberVars, second, stream>>

\* the caller calls one method
CallMethod(c) ==
    /\ phase = "idle"
    /\ calls' = <<c>>
    /\ phase' = "running"
    /\ before' = ser
    /\ UNCHANGED <<ser, config, val, mode, locals, decoded, NumberVars,
                   second, stream>>

FlushMappingStart ==
    /\ Running("flush_mapping_start")
    /\ Return(flush_mapping_start(ser))
    /\ UNCHANGED locals

NextMethods ==
    \/ \E st \in States, d \in Depths : AssignFields(st, d)
    \/ \E c \in MethodCalls : CallMethod(c)
    \/ SerializeMap
    \/ FlushMappingStart
    \/ SerializeKey
    \/ CollectStr
    \/ MapEnd
    \/ DropFirst

SpecMethods == Init /\ [][NextMethods]_vars

\* ------------------------------------------------------------------------
\* Streams: a Serializer is built by the caller (Serializer::new), who
\* serializes values on it and may take the writer back with into_inner, or
\* it is built and dropped inside to_writer
\* ------------------------------------------------------------------------
\* events of a stream after which the caller serializes no further value
MaxWritten == 8

Open == stream.entry = "new" /\ ~stream.over

\* to_writer: Serializer::new(writer), then value.serialize(&mut serializer)
ToWriter(v) ==
    /\ phase = "idle" /\ Open
    /\ ser = new_with_config
    /\ stream' = Stream("to_writer", <<StreamStart>>, FALSE)
    /\ val' = v
    /\ mode' = "plain"
    /\ calls' = Calls(v)
    /\ locals' = <<>>
    /\ phase' = "running"
    /\ before' = ser
    /\ UNCHANGED <<ser, config, decoded, NumberVars, second>>

\* what the writer was handed so far: the events of the earlier values of
\* the stream, then those of the value at hand
Written == stream.events \o ser.events

Handed ==
    /\ ser' = [ser EXCEPT !.events = <<>>]
    /\ UNCHANGED <<config, val, mode, calls, locals, decoded, phase, before,
                   NumberVars, second>>

\* to_writer returns what value.serialize returned; its Serializer is
\* dropped
ToWriterReturns ==
    /\ phase \in {"done", "failed"}
    /\ stream.entry = "to_writer" /\ ~stream.over
    /\ stream' = Stream("to_writer", Written, TRUE)
    /\ Handed

\* Serializer::into_inner: StreamEnd, flush, and the Serializer is consumed
into_inner(events) == Append(events, StreamEnd)

IntoInner ==
    /\ phase \in {"idle", "done"} /\ Open
    /\ stream' = Stream("new", into_inner(Written), TRUE)
    /\ Handed

\* the caller serializes a further value on the same Serializer
FurtherValue ==
    /\ Open
    /\ phase = "done"
    /\ ser.depth <= MaxCarriedDepth
    /\ Len(Written) <= MaxWritten
    /\ stream' = Stream("new", Written, FALSE)
    /\ ser' = [ser EXCEPT !.events = <<>>]
    /\ val' = NoneV
    /\ mode' = "plain"
    /\ phase' = "idle"
    /\ before' = ser'
    /\ UNCHANGED <<config, calls, locals, decoded, NumberVars, second>>

\* the caller builds the next Serializer
NewSerializer ==
    /\ stream.over
    /\ stream' = Stream("new", <<StreamStart>>, FALSE)
    /\ ser' = new_with_config
    /\ val' = NoneV
    /\ mode' = "plain"
    /\ calls' = <<>>
    /\ locals' = <<>>
    /\ phase' = "idle"
    /\ before' = new_with_config
    /\ UNCHANGED <<config, decoded, NumberVars, second>>

NextStream ==
    \/ \E v \in TwoValues : ToWriter(v)
    \/ ToWriterReturns
    \/ (Open /\ \E v \in TwoValues : Begin(v, "plain"))
    \/ FurtherValue
    \/ IntoInner
    \/ NewSerializer
    \/ SerializeI64
    \/ SerializeStr
    \/ SerializeNewtypeVariant
    \/ SerializeSeq
    \/ SerializeMap
    \/ SerializeKey
    \/ SerializeEntryKeyDone
    \/ SerializeEntryValueDone
    \/ MapEnd
    \/ SeqEnd

SpecStream == Init /\ [][NextStream]_vars

\* Result<String>: the text is what the emitter wrote for the events
StringResult(ok, err, events) == [ok |-> ok, err |-> err, events |-> events]

\* to_string: to_writer(&mut vec, value)? and then the text of vec
to_string_of(v, m, tag_unit_variants) ==
    LET s == to_writer(v, m, tag_unit_variants)
    IN  IF s.err # Ok THEN StringResult(FALSE, s.err, <<>>)
        ELSE StringResult(TRUE, Ok, s.events)

\* ------------------------------------------------------------------------
\* Reading an event sequence
\* ------------------------------------------------------------------------
IsStart(ev) == ev.e \in {"SequenceStart", "MappingStart"}
IsEnd(ev) == ev.e \in {"SequenceEnd", "MappingEnd"}
EndOf(e) == IF e = "SequenceStart" THEN "SequenceEnd" ELSE "MappingEnd"

\* the Starts still open after the events, innermost first; <<"unmatched">>
\* when some End had no open Start of its kind
RECURSIVE OpenStarts(_, _)
OpenStarts(events, open) ==
    IF events = <<>> THEN open
    ELSE LET ev == Head(events)
         IN  IF IsStart(ev) THEN OpenStarts(Tail(events), <<ev.e>> \o open)
             ELSE IF IsEnd(ev)
             THEN IF open # <<>> /\ EndOf(Head(open)) = ev.e
                  THEN OpenStarts(Tail(events), Tail(open))
                  ELSE <<"unmatched">>
             ELSE OpenStarts(Tail(events), open)

StartsMatchEnds(events) == OpenStarts(events, <<>>) = <<>>

CountEvents(events, e) == Cardinality({i \in 1..Len(events) : events[i].e = e})

Tagged(events) == {i \in 1..Len(events) : events[i].tag # NoTag}

\* every map of the value declares the number of entries it writes
RECURSIVE HonestLengths(_)
HonestLengths(v) ==
    CASE v.k \in {"some", "nvar"} -> HonestLengths(v.v)
      [] v.k \in {"seq", "tvar"} ->
            \A i \in 1..Len(v.items) : HonestLengths(v.items[i])
      [] v.k \in {"struct", "svar"} ->
            \A i \in 1..Len(v.fields) : HonestLengths(v.fields[i].value)
      [] v.k = "map" ->
            /\ v.len1 => Len(v.entries) = 1
            /\ \A i \in 1..Len(v.entries) :
                  HonestLengths(v.entries[i].key) /\ HonestLengths(v.entries[i].value)
      [] OTHER -> TRUE

\* a value begun on a Serializer that is between documents
Fresh == before.depth = 0 /\ before.state = NothingInParticular

Completed == phase = "done" /\ Fresh /\ HonestLengths(val)

NewEvents == SubSeq(ser'.events, Len(ser.events) + 1, Len(ser'.events))

RECURSIVE DepthAfter(_, _, _, _)
DepthAfter(d, opened, closing, evs) ==
    IF evs = <<>> THEN (IF opened \/ closing THEN -1 ELSE d)
    ELSE LET ev == Head(evs)
             rest == Tail(evs)
         IN  CASE ev.e = "DocumentStart" ->
                    IF d = 0 /\ ~opened /\ ~closing
                    THEN DepthAfter(0, TRUE, FALSE, rest) ELSE -1
               [] ev.e = "DocumentEnd" ->
                    IF closing THEN DepthAfter(d, FALSE, FALSE, rest) ELSE -1
               [] IsStart(ev) ->
                    IF ~closing /\ (d = 0 => opened)
                    THEN DepthAfter(d + 1, FALSE, FALSE, rest) ELSE -1
               [] ev.e = "Scalar" ->
                    IF ~closing /\ (d = 0 => opened)
                    THEN DepthAfter(d, FALSE, d = 0, rest) ELSE -1
               [] OTHER ->
                    IF ~closing /\ ~opened
                    THEN DepthAfter(saturating_sub(d, 1), FALSE, d = 1, rest)
                    ELSE -1

PayloadVariantOps ==
    {"serialize_newtype_variant", "serialize_tuple_variant",
     "serialize_struct_variant"}

\* names of the variants and tag-like display values inside a value
RECURSIVE NamesIn(_)
NamesIn(v) ==
    CASE v.k = "uvar" -> {v.name}
      [] v.k = "display" -> IF v.tag THEN {v.text} ELSE {}
      [] v.k = "some" -> NamesIn(v.v)
      [] v.k = "nvar" -> {v.name} \cup NamesIn(v.v)
      [] v.k = "seq" -> UNION {NamesIn(v.items[i]) : i \in 1..Len(v.items)}
      [] v.k = "tvar" ->
            {v.name} \cup UNION {NamesIn(v.items[i]) : i \in 1..Len(v.items)}
      [] v.k = "struct" ->
            UNION {NamesIn(v.fields[i].value) : i \in 1..Len(v.fields)}
      [] v.k = "svar" ->
            {v.name}
            \cup UNION {NamesIn(v.fields[i].value) : i \in 1..Len(v.fields)}
      [] v.k = "map" ->
            UNION {NamesIn(v.entries[i].key) \cup NamesIn(v.entries[i].value) :
                   i \in 1..Len(v.entries)}
      [] OTHER -> {}

NamesInPayload(v) ==
    CASE v.k = "nvar" -> NamesIn(v.v)
      [] v.k = "tvar" -> UNION {NamesIn(v.items[i]) : i \in 1..Len(v.items)}
      [] v.k = "svar" ->
            UNION {NamesIn(v.fields[i].value) : i \in 1..Len(v.fields)}

\* the kind of the first event a value emits
RECURSIVE FirstEventOf(_)
FirstEventOf(v) ==
    CASE v.k \in {"seq", "tvar"} -> "SequenceStart"
      [] v.k \in {"map", "struct", "svar"} -> "MappingStart"
      [] v.k \in {"some", "nvar"} -> FirstEventOf(v.v)
      [] OTHER -> "Scalar"

\* index of the first event of the value itself
FirstValueEvent(events) == IF events[1].e = "DocumentStart" THEN 2 ELSE 1

FirstNonDocument(events) ==
    CHOOSE i \in 1..Len(events) :
        /\ events[i].e # "DocumentStart"
        /\ \A j \in 1..(i - 1) : events[j].e = "DocumentStart"

\* a variant encoded as a whole value: its tag is on the payload's first
\* event, which directly follows the DocumentStart
C3_WholeValue ==
    (phase = "done" /\ mode = "plain" /\ val.k \in {"nvar", "tvar", "svar"}) =>
        LET first == FirstValueEvent(ser.events)
        IN  /\ ser.events[first].tag = TagOf(val.name)
            /\ ser.events[first].e = FirstEventOf(val)
            /\ (val.name \notin NamesInPayload(val)) =>
                 {i \in 1..Len(ser.events) : ser.events[i].tag = TagOf(val.name)}
                     = {first}

\* a variant beginning anywhere with no tag pending: a newtype variant
\* emits nothing and leaves its tag pending, a tuple or struct variant emits
\* its Start carrying the tag
C3_VariantBegins ==
    (/\ phase = "running"
     /\ Head(calls).op \in PayloadVariantOps
     /\ ~IsFoundTag(ser.state)) =>
        LET name == Head(calls).text
            new == NewEvents
        IN  CASE Head(calls).op = "serialize_newtype_variant" ->
                    ser'.state = FoundTag(name) /\ new = <<>>
              [] Head(calls).op = "serialize_tuple_variant" ->
                    /\ new \in {<<SequenceStart(TagOf(name))>>,
                                <<DocumentStart, SequenceStart(TagOf(name))>>}
                    /\ ~IsFoundTag(ser'.state)
              [] Head(calls).op = "serialize_struct_variant" ->
                    /\ new \in {<<MappingStart(TagOf(name))>>,
                                <<DocumentStart, MappingStart(TagOf(name))>>}
                    /\ ~IsFoundTag(ser'.state)

\* a pending tag goes onto the next event emitted, and onto that event only
C3_PendingTagOnNextEvent ==
    (phase = "running" /\ IsFoundTag(ser.state) /\ ser'.events # ser.events) =>
        LET new == NewEvents
            i == FirstNonDocument(new)
        IN  /\ new[i].e \in {"Scalar", "SequenceStart", "MappingStart"}
            /\ new[i].tag = TagOf(ser.state.tag)
            /\ \A j \in 1..Len(new) : j # i => new[j].tag = NoTag
            /\ ~IsFoundTag(ser'.state)

\* C3: a newtype, tuple or struct variant N encoded with no tag pending puts
\* the tag !N on the first event of its payload and on no other event of the
\* payload, and emits no mapping around the payload.
C3_VariantTagOnFirstPayloadEvent ==
    /\ []C3_WholeValue
    /\ [][C3_VariantBegins /\ C3_PendingTagOnNextEvent]_vars

C3_Witness ==
    /\ phase = "done" /\ mode = "plain"
    /\ val = NewtypeVariant("B", IntV("42"))
    /\ ser.events = <<DocumentStart, Scalar("!B", "42", "Plain"), DocumentEnd>>

\* ------------------------------------------------------------------------
\* C4
\* ------------------------------------------------------------------------
TaggingVariantOps(tag_unit_variants) ==
    PayloadVariantOps
    \cup (IF tag_unit_variants THEN {"serialize_unit_variant"} ELSE {})

\* C4: a newtype, tuple or struct variant (or a unit variant when unit
\* variants are tagged) that begins while the state is FoundTag returns the
\* nested-enum error, emits no event and leaves the pending tag and the depth
\* unchanged.
C4_NestedEnumRejected ==
    [][(/\ phase = "running"
        /\ Head(calls).op \in TaggingVariantOps(config)
        /\ IsFoundTag(ser.state)) =>
            /\ ser'.err = SerializeNestedEnum
            /\ phase' = "failed"
            /\ ser'.events = ser.events
            /\ ser'.state = ser.state
            /\ ser'.depth = ser.depth]_vars

C4_Witness ==
    /\ phase = "failed"
    /\ ser.err = SerializeNestedEnum
    /\ IsFoundTag(ser.state)

\* ------------------------------------------------------------------------
\* C5
\* ------------------------------------------------------------------------
ProxyAtVariant ==
    /\ phase = "done" /\ Fresh /\ HonestLengths(val)
    /\ mode \in ProxyModes
    /\ val.k \in {"nvar", "tvar", "svar"}

TagsOf(events) == {events[i].tag : i \in Tagged(events)}

\* the events between the Document events
Inner(events) == SubSeq(events, 2, Len(events) - 1)

\* a value whose own default encoding is one well-formed document
EncodesAsOneDocument(v, tag_unit_variants) ==
    LET s == to_writer(v, "plain", tag_unit_variants)
    IN  /\ s.err = Ok
        /\ StartsMatchEnds(s.events)
        /\ CountEvents(s.events, "DocumentStart") = 1

\* the map around the payload: MappingStart, Scalar N, ..., MappingEnd in one
\* document, the three of them untagged
SingletonMapAround(events, name) ==
    /\ Len(events) >= 6
    /\ events[1] = DocumentStart
    /\ events[2] = MappingStart(NoTag)
    /\ events[3] = Scalar(NoTag, name, StrStyle(name))
    /\ events[Len(events) - 1] = MappingEnd
    /\ events[Len(events)] = DocumentEnd

RunAgrees ==
    (phase \in {"done", "failed"} /\ before = new_with_config) =>
        ser = to_writer(val, mode, config)

\* ------------------------------------------------------------------------
\* C6
\* ------------------------------------------------------------------------
RECURSIVE SumOver(_, _, _)
\* the sum of F(items[i].field) or F(items[i]) over a sequence
SumOver(F(_), items, i) ==
    IF i > Len(items) THEN 0 ELSE F(items[i]) + SumOver(F, items, i + 1)

\* the enum variants in a value, at any depth
RECURSIVE VariantCount(_)
VariantCountOfEntry(e) == VariantCount(e.key) + VariantCount(e.value)
VariantCountOfField(f) == VariantCount(f.value)
VariantCount(v) ==
    CASE v.k = "uvar" -> 1
      [] v.k = "some" -> VariantCount(v.v)
      [] v.k = "nvar" -> 1 + VariantCount(v.v)
      [] v.k = "seq" -> SumOver(VariantCount, v.items, 1)
      [] v.k = "tvar" -> 1 + SumOver(VariantCount, v.items, 1)
      [] v.k = "struct" -> SumOver(VariantCountOfField, v.fields, 1)
      [] v.k = "svar" -> 1 + SumOver(VariantCountOfField, v.fields, 1)
      [] v.k = "map" -> SumOver(VariantCountOfEntry, v.entries, 1)
      [] OTHER -> 0

\* a value holding a display value that reads as a tag is no tree of enums
\* and plain data
RECURSIVE HasTagLikeDisplay(_)
HasTagLikeDisplay(v) ==
    CASE v.k = "display" -> v.tag
      [] v.k \in {"some", "nvar"} -> HasTagLikeDisplay(v.v)
      [] v.k \in {"seq", "tvar"} ->
            \E i \in 1..Len(v.items) : HasTagLikeDisplay(v.items[i])
      [] v.k \in {"struct", "svar"} ->
            \E i \in 1..Len(v.fields) : HasTagLikeDisplay(v.fields[i].value)
      [] v.k = "map" ->
            \E i \in 1..Len(v.entries) :
                \/ HasTagLikeDisplay(v.entries[i].key)
                \/ HasTagLikeDisplay(v.entries[i].value)
      [] OTHER -> FALSE

VariantNameScalars(events) ==
    {i \in 1..Len(events) :
        events[i].e = "Scalar" /\ events[i].text \in VariantNames}

UnderRecursiveProxy ==
    /\ phase \in {"running", "done"}
    /\ mode = "singleton_map_recursive"
    /\ ~config
    /\ ~HasTagLikeDisplay(val)

\* C6: under the recursive proxy, with unit-variant tagging off, every enum
\* variant of the value at any depth is written by the singleton-map
\* substitution: no event of the output carries a tag, and every variant of
\* the value put its name into the output as an untagged scalar.
C6_RecursiveProxyLeavesNoTag ==
    UnderRecursiveProxy =>
        /\ Tagged(ser.events) = {}
        /\ ~IsFoundTag(ser.state)
        /\ phase = "done" =>
              Cardinality(VariantNameScalars(ser.events)) = VariantCount(val)

C6_Witness ==
    /\ UnderRecursiveProxy /\ phase = "done"
    /\ val = SeqV(<<NewtypeVariant("B", IntV("42"))>>)
    /\ ser.events = <<DocumentStart, SequenceStart(NoTag), MappingStart(NoTag),
                      Scalar(NoTag, "B", StrStyle("B")),
                      Scalar(NoTag, "42", "Plain"),
                      MappingEnd, SequenceEnd, DocumentEnd>>

\* ------------------------------------------------------------------------
\* C9
\* ------------------------------------------------------------------------
\* a map of declared length 1 written with serialize_entry whose key is
\* written with collect_str and reads as a tag
IsTagKeyedMap(v) ==
    /\ v.k = "map" /\ v.len1 /\ v.entry
    /\ Len(v.entries) = 1
    /\ v.entries[1].key.k = "display"
    /\ v.entries[1].key.tag

\* the whole encoding equals the encoding of the newtype variant of the
\* key's name and the entry's value
C9_SameAsNewtypeVariant ==
    (phase \in {"done", "failed"} /\ mode = "plain" /\ IsTagKeyedMap(val)) =>
        LET name == val.entries[1].key.text
            value == val.entries[1].value
            native == Run(before, Calls(NewtypeVariant(name, value)), <<>>,
                          config)
        IN  /\ ser = native
            /\ phase = "done" =>
                 /\ ser.state = NothingInParticular
                 /\ ser.events[FirstValueEvent(ser.events)].tag = TagOf(name)
                 /\ ser.events[FirstValueEvent(ser.events)].e
                        = FirstEventOf(value)

\* the key sets the tag without any event, and the end of an entry that was
\* tagged this way emits no MappingEnd
C9_TagKeySteps ==
    /\ (/\ Running("collect_str")
        /\ ser.state = CheckForTag
        /\ check_for_tag(Head(calls).text, Head(calls).flag).is_tag) =>
            /\ ser'.state = FoundTag(Head(calls).text)
            /\ ser'.events = ser.events
    /\ (Running("map_end") /\ ser.state = AlreadyTagged) =>
            /\ ser'.state = NothingInParticular
            /\ ser'.events = ser.events
            /\ ser'.depth = ser.depth

\* C9: a map of declared length 1 written with serialize_entry, whose key is
\* written with collect_str and classified as a variant name, gets no
\* MappingStart and no MappingEnd; the tag goes onto the first event of the
\* entry's value, the events are those of the newtype variant of that name
\* and value, and the state is NothingInParticular after the map ends.
C9_TagKeyedMapIsNewtypeVariant ==
    /\ []C9_SameAsNewtypeVariant
    /\ [][C9_TagKeySteps]_vars

C9_Witness ==
    /\ phase = "done" /\ mode = "plain"
    /\ val = MapV(TRUE, TRUE, <<KV(Display("B", TRUE), IntV("42"))>>)
    /\ ser.events = <<DocumentStart, Scalar("!B", "42", "Plain"), DocumentEnd>>
    /\ ser.state = NothingInParticular

\* ------------------------------------------------------------------------
\* C7
\* ------------------------------------------------------------------------
IsVariant(v) == v.k \in {"uvar", "nvar", "tvar", "svar"}

RECURSIVE Unwrapped(_)
Unwrapped(v) == IF v.k = "some" THEN Unwrapped(v.v) ELSE v

\* values built from integers, strings, the four enum shapes, optionals,
\* sequences, maps and structs; no optional of an absent optional, no map
\* with a repeated key, no enum directly inside a newtype variant
RECURSIVE RoundTripDomain(_)
RoundTripDomain(v) ==
    CASE v.k \in {"str", "int", "none", "uvar"} -> TRUE
      [] v.k = "some" -> Unwrapped(v).k # "none" /\ RoundTripDomain(v.v)
      [] v.k = "nvar" -> ~IsVariant(Unwrapped(v.v)) /\ RoundTripDomain(v.v)
      [] v.k \in {"seq", "tvar"} ->
            \A i \in 1..Len(v.items) : RoundTripDomain(v.items[i])
      [] v.k \in {"struct", "svar"} ->
            \A i \in 1..Len(v.fields) : RoundTripDomain(v.fields[i].value)
      [] v.k = "map" ->
            /\ \A i \in 1..Len(v.entries) :
                  /\ RoundTripDomain(v.entries[i].key)
                  /\ RoundTripDomain(v.entries[i].value)
            /\ \A i, j \in 1..Len(v.entries) :
                  v.entries[i].key = v.entries[j].key => i = j
      [] OTHER -> FALSE

Encoded ==
    /\ phase = "done" /\ Fresh /\ HonestLengths(val)
    /\ ~config
    /\ RoundTripDomain(val)

\* decode(encode(x)) with the proxy that encoded x
RoundTrip == from_node(TypeOf(val), Load(ser.events), mode)

\* C7: decode(encode(x)) == x for every x built from the four enum shapes,
\* optionals of enums and enums nested inside sequences, maps and optionals,
\* under the default tag convention and under either singleton-map proxy.
C7_RoundTrip == Encoded => RoundTrip = val

\* ------------------------------------------------------------------------
\* C8
\* ------------------------------------------------------------------------
\* a map with no key or with more than one key was decoded as MyEnum
DecodedWrongSizeMap ==
    /\ phase = "decoded"
    /\ decoded.proxy \in ProxyModes
    /\ decoded.ty = MyEnum
    /\ decoded.doc.k = "map"
    /\ Len(decoded.doc.entries) # 1

\* the payload each variant of MyEnum is written with
PayloadFits(name, n) ==
    CASE name = "Newtype" -> n = Plain("1")
      [] name = "Tuple" -> n = SeqNode(NoTag, <<Plain("1"), Plain("2")>>)
      [] name = "Struct" ->
            n = MapNode(NoTag, <<KV(Plain("value"), Plain("1"))>>)
      [] OTHER -> FALSE

\* the claim as stated: the error is always the single-key error
C8_AlwaysSingleKeyError ==
    DecodedWrongSizeMap => decoded.result = SingleKeyError

\* C8 (amended): decoding through a singleton-map proxy a map with no key or
\* with more than one key where an enum is expected always fails and never
\* returns a value.  The error is the single-key shape error when the map
\* has no key, and when its first key names a newtype, tuple or struct
\* variant whose payload decodes; a first key naming a unit variant fails
\* with the type error "expected unit variant", a first key naming no
\* variant with the unknown-variant error, and a payload that does not
\* decode with the payload's own error.
C8_WrongSizeMapNeverDecodes ==
    DecodedWrongSizeMap =>
        LET entries == decoded.doc.entries
            first == entries[1].key.text
        IN  /\ IsError(decoded.result)
            /\ entries = <<>> => decoded.result = SingleKeyError
            /\ (entries # <<>> /\ first = "Unit") =>
                  decoded.result = UnitVariantError
            /\ (entries # <<>> /\ first = "Other") =>
                  decoded.result = UnknownVariant
            /\ (entries # <<>> /\ first \in {"Newtype", "Tuple", "Struct"}) =>
                  IF PayloadFits(first, entries[1].value)
                  THEN decoded.result = SingleKeyError
                  ELSE decoded.result \notin {SingleKeyError, UnitVariantError,
                                              UnknownVariant}

C8_Witness ==
    /\ DecodedWrongSizeMap
    /\ decoded.doc = MapNode(NoTag, <<KV(Plain("Newtype"), Plain("1")),
                                      KV(Plain("x"), Plain("1"))>>)
    /\ decoded.result = SingleKeyError

\* ------------------------------------------------------------------------
\* C11
\* ------------------------------------------------------------------------
IsDocumentEvent(ev) == ev.e \in {"DocumentStart", "DocumentEnd"}

\* the events of a step without the Document events around them
ValueEvents(events) == SelectSeq(events, LAMBDA ev : ~IsDocumentEvent(ev))

\* the tag pending before a step, as it appears on an event
PendingTag == IF IsFoundTag(ser.state) THEN TagOf(ser.state.tag) ELSE NoTag

\* C11: a unit variant N, begun with no tag pending when unit variants are
\* tagged, emits exactly one scalar: empty text, style Plain, tag !N (the
\* FoundTag(N) it set is consumed by that scalar).  When unit variants are
\* not tagged it emits N as a string scalar styled by the string classifier,
\* after the MappingStart of a deferred map if one is pending; the scalar
\* carries only a tag that was pending before, and no tag is left pending.
C11_UnitVariant ==
    [][Running("serialize_unit_variant") =>
        LET name == Head(calls).text
            new == ValueEvents(NewEvents)
        IN  IF config
            THEN ~IsFoundTag(ser.state) =>
                    /\ new = <<Scalar(TagOf(name), "", "Plain")>>
                    /\ ser'.state = NothingInParticular
                    /\ ser'.err = Ok
            ELSE /\ new = (IF ser.state = CheckForTag
                           THEN <<MappingStart(NoTag)>> ELSE <<>>)
                          \o <<Scalar(PendingTag, name, StrStyle(name))>>
                 /\ ~IsFoundTag(ser'.state)
                 /\ ser'.err = Ok]_vars

C11_Witness ==
    /\ phase = "done" /\ mode = "plain" /\ config
    /\ val = UnitVariant("A")
    /\ ser.events = <<DocumentStart, Scalar("!A", "", "Plain"), DocumentEnd>>

\* ------------------------------------------------------------------------
\* C12
\* ------------------------------------------------------------------------
\* a unit variant at the attachment point of a proxy
ProxyAtUnitVariant ==
    /\ phase = "done" /\ Fresh
    /\ mode \in ProxyModes
    /\ Unwrapped(val).k = "uvar"

RECURSIVE NativeTags(_, _)
NativeTagsOfEntry(e, tag_unit_variants) ==
    NativeTags(e.key, tag_unit_variants) + NativeTags(e.value, tag_unit_variants)
NativeTagsOfItems(items, tag_unit_variants) ==
    LET F(v) == NativeTags(v, tag_unit_variants) IN SumOver(F, items, 1)
NativeTagsOfFields(fields, tag_unit_variants) ==
    LET F(f) == NativeTags(f.value, tag_unit_variants)
    IN  SumOver(F, fields, 1)
NativeTags(v, tag_unit_variants) ==
    CASE v.k = "uvar" -> IF tag_unit_variants THEN 1 ELSE 0
      [] v.k = "some" -> NativeTags(v.v, tag_unit_variants)
      [] v.k = "nvar" -> 1 + NativeTags(v.v, tag_unit_variants)
      [] v.k = "seq" -> NativeTagsOfItems(v.items, tag_unit_variants)
      [] v.k = "tvar" -> 1 + NativeTagsOfItems(v.items, tag_unit_variants)
      [] v.k = "struct" -> NativeTagsOfFields(v.fields, tag_unit_variants)
      [] v.k = "svar" -> 1 + NativeTagsOfFields(v.fields, tag_unit_variants)
      [] v.k = "map" ->
            LET F(e) == NativeTagsOfEntry(e, tag_unit_variants)
            IN  SumOver(F, v.entries, 1)
      [] OTHER -> 0

\* the names of those variants
RECURSIVE NativeTagNames(_, _)
NativeTagNames(v, tag_unit_variants) ==
    CASE v.k = "uvar" -> IF tag_unit_variants THEN {v.name} ELSE {}
      [] v.k = "some" -> NativeTagNames(v.v, tag_unit_variants)
      [] v.k = "nvar" -> {v.name} \cup NativeTagNames(v.v, tag_unit_variants)
      [] v.k \in {"seq", "tvar"} ->
            (IF v.k = "tvar" THEN {v.name} ELSE {})
            \cup UNION {NativeTagNames(v.items[i], tag_unit_variants) :
                          i \in 1..Len(v.items)}
      [] v.k \in {"struct", "svar"} ->
            (IF v.k = "svar" THEN {v.name} ELSE {})
            \cup UNION {NativeTagNames(v.fields[i].value, tag_unit_variants) :
                          i \in 1..Len(v.fields)}
      [] v.k = "map" ->
            UNION {NativeTagNames(v.entries[i].key, tag_unit_variants)
                   \cup NativeTagNames(v.entries[i].value, tag_unit_variants) :
                   i \in 1..Len(v.entries)}
      [] OTHER -> {}

UnderSingletonMap ==
    /\ phase = "done" /\ Fresh /\ HonestLengths(val)
    /\ mode = "singleton_map"
    /\ ~HasTagLikeDisplay(val)

C14_OptionalProxy ==
    /\ (phase = "done" /\ Fresh /\ mode = "singleton_map_optional"
            /\ val = NoneV) =>
            ser.events = <<DocumentStart, Scalar(NoTag, "null", "Plain"),
                           DocumentEnd>>
    /\ (phase \in {"done", "failed"} /\ mode = "singleton_map_optional"
            /\ val.k = "some") =>
            ser = Run(before, CallsFor(val.v, "singleton_map"), <<>>, config)
    /\ (phase = "decoded" /\ decoded.proxy = "singleton_map_optional") =>
            IF IsNull(decoded.doc, FALSE) THEN decoded.result = NoneV
            ELSE LET r == from_node(MyEnum, decoded.doc, "singleton_map")
                 IN  decoded.result = IF IsError(r) THEN r ELSE SomeV(r)

C14_Witness ==
    /\ phase = "done" /\ Fresh /\ mode = "singleton_map_optional"
    /\ val = SomeV(NewtypeVariant("B", IntV("42")))
    /\ ser.events = <<DocumentStart, MappingStart(NoTag),
                      Scalar(NoTag, "B", StrStyle("B")),
                      Scalar(NoTag, "42", "Plain"), MappingEnd, DocumentEnd>>

\* ------------------------------------------------------------------------
\* C15
\* ------------------------------------------------------------------------
\* a document was decoded as MyEnum through a singleton-map proxy
DecodedEnum ==
    /\ phase = "decoded"
    /\ decoded.proxy \in ProxyModes
    /\ decoded.ty = MyEnum

\* the value of MyEnum a variant name and a fitting payload stand for
VariantOf(name) ==
    CASE name = "Newtype" -> NewtypeVariant("Newtype", IntV("1"))
      [] name = "Tuple" -> TupleVariant("Tuple", <<IntV("1"), IntV("2")>>)
      [] name = "Struct" ->
            StructVariant("Struct", <<Field("value", IntV("1"))>>)

\* C15: decoding an enum through a singleton-map proxy, a bare string that
\* names a unit variant gives that variant, and any other scalar is an
\* error; a map of exactly one entry gives the variant its key names, with
\* the entry's value read as that variant's payload, and is an error when
\* the value does not have the variant's shape, when the key names no
\* variant, and when the key names a unit variant.
C15_StringOrSingleEntryMap ==
    DecodedEnum =>
        LET doc == decoded.doc
        IN  CASE doc.k = "scalar" ->
                    IF doc.text = "Unit"
                    THEN decoded.result = UnitVariant("Unit")
                    ELSE IsError(decoded.result)
              [] doc.k = "map" /\ Len(doc.entries) = 1 ->
                    LET name == doc.entries[1].key.text
                        payload == doc.entries[1].value
                    IN  CASE name = "Unit" ->
                                decoded.result = UnitVariantError
                          [] name = "Other" ->
                                decoded.result = UnknownVariant
                          [] OTHER ->
                                IF PayloadFits(name, payload)
                                THEN decoded.result = VariantOf(name)
                                ELSE IsError(decoded.result)
              [] OTHER -> TRUE

C15_Witness ==
    /\ DecodedEnum
    /\ decoded.doc = MapNode(NoTag, <<KV(Plain("Tuple"),
                          SeqNode(NoTag, <<Plain("1"), Plain("2")>>))>>)
    /\ decoded.result = TupleVariant("Tuple", <<IntV("1"), IntV("2")>>)

\* ------------------------------------------------------------------------
\* C16
\* ------------------------------------------------------------------------
\* the step hands a string to serialize_str: a string value, a struct field
\* name, or the display text of a value written with collect_str
WritesString ==
    /\ phase = "running" /\ calls # <<>>
    /\ \/ Head(calls).op \in {"serialize_str", "struct_field"}
       \/ /\ Head(calls).op = "collect_str"
          /\ ~Head(calls).flag

StringWritten == Head(calls).text

\* the scalar the step emitted
EmittedScalar ==
    LET new == NewEvents
    IN  new[CHOOSE i \in 1..Len(new) : new[i].e = "Scalar"]

IsBoolLike(text) == LowerCase(text) \in BoolLikeTokens

ReadAsNonString(text) ==
    UntaggedScalarKind(text) # "str" \/ ambiguous_string(text)

\* the style of a string that is not boolean-like, with `unforced` the
\* style of a string nothing speaks against
StyleOfOther(text, unforced) ==
    IF ContainsNewline(text) THEN "Literal"
    ELSE IF ReadAsNonString(text) THEN "SingleQuoted"
    ELSE unforced

\* the claim as stated: Plain in every other case
C17_PlainOtherwise ==
    [][(WritesString /\ ~IsBoolLike(StringWritten)) =>
            EmittedScalar.style = StyleOfOther(StringWritten, "Plain")]_vars

\* C17 (amended): for a string that is not a boolean-like token: if it
\* contains a newline its style is Literal, whether or not it would
\* otherwise be ambiguous; otherwise its style is SingleQuoted exactly when
\* an unquoted reader would take it for null, a bool or a number or the
\* decoder's ambiguity predicate holds of it, and Any in every other case:
\* the Serializer forces no style and leaves the choice to the emitter.
C17_AnyOtherwise ==
    [][(WritesString /\ ~IsBoolLike(StringWritten)) =>
            EmittedScalar.style = StyleOfOther(StringWritten, "Any")]_vars

C17_Witness ==
    /\ phase = "done"
    /\ val = SeqV(<<StrV("1\n2")>>)
    /\ ser.events = <<DocumentStart, SequenceStart(NoTag),
                      Scalar(NoTag, "1\n2", "Literal"),
                      SequenceEnd, DocumentEnd>>

\* ------------------------------------------------------------------------
\* C18
\* ------------------------------------------------------------------------
StringScalar(text) == Scalar(NoTag, text, StrStyle(text))

\* the scalar of a field's or an entry's value
ValueScalar(v) ==
    IF v.k = "str" THEN StringScalar(v.text) ELSE Scalar(NoTag, v.text, "Plain")

IsScalarValue(v) == v.k \in {"str", "int"}

\* C18: a struct field name and a string map key are styled by the string
\* classifier, as a string value is: a name or key that is a boolean-like
\* or otherwise ambiguous token is SingleQuoted (field y is written 'y'),
\* and the value after it has the style of its own text or type, whatever
\* the key.
C18_KeysStyledAsStrings ==
    /\ [](phase = "done" /\ val.k = "struct" /\ Len(val.fields) = 1
            /\ IsScalarValue(val.fields[1].value) =>
            ser.events = <<DocumentStart, MappingStart(NoTag),
                           StringScalar(val.fields[1].name),
                           ValueScalar(val.fields[1].value),
                           MappingEnd, DocumentEnd>>)
    /\ [](phase = "done" /\ val.k = "map" /\ Len(val.entries) = 1
            /\ val.entries[1].key.k = "str"
            /\ IsScalarValue(val.entries[1].value) =>
            ser.events = <<DocumentStart, MappingStart(NoTag),
                           StringScalar(val.entries[1].key.text),
                           ValueScalar(val.entries[1].value),
                           MappingEnd, DocumentEnd>>)
    /\ [][Running("struct_field") =>
            EmittedScalar = StringScalar(Head(calls).text)]_vars

C18_Witness ==
    /\ phase = "done"
    /\ val = StructV(<<Field("x", IntV("1")), Field("y", IntV("2"))>>)
    /\ ser.events = <<DocumentStart, MappingStart(NoTag),
                      Scalar(NoTag, "x", "Any"), Scalar(NoTag, "1", "Plain"),
                      Scalar(NoTag, "y", "SingleQuoted"),
                      Scalar(NoTag, "2", "Plain"),
                      MappingEnd, DocumentEnd>>

\* ------------------------------------------------------------------------
\* C19
\* ------------------------------------------------------------------------
\* a value all of whose scalars are strings
RECURSIVE StringsOnly(_)
StringsOnly(v) ==
    CASE v.k \in {"str", "display"} -> TRUE
      [] v.k = "nvar" -> StringsOnly(v.v)
      [] v.k = "seq" -> \A i \in 1..Len(v.items) : StringsOnly(v.items[i])
      [] v.k = "struct" ->
            \A i \in 1..Len(v.fields) : StringsOnly(v.fields[i].value)
      [] v.k = "map" ->
            \A i \in 1..Len(v.entries) :
                StringsOnly(v.entries[i].key) /\ StringsOnly(v.entries[i].value)
      [] OTHER -> FALSE

\* two scalars of one value with the same text have the same style,
\* whatever the state, depth and pending tag each was written in
SameTextSameStyle ==
    (phase \in {"running", "done"} /\ StringsOnly(val)) =>
        \A i, j \in 1..Len(ser.events) :
            (/\ ser.events[i].e = "Scalar" /\ ser.events[j].e = "Scalar"
             /\ ser.events[i].text = ser.events[j].text) =>
                ser.events[i].style = ser.events[j].style

\* C19: the style of a string scalar is a function of its text alone: in
\* every state, at every depth, with or without a pending tag and under
\* either configuration, the scalar written for a string has the text
\* unchanged and the style the classifier gives that text.
C19_StyleDependsOnTextOnly ==
    /\ []SameTextSameStyle
    /\ [][WritesString =>
            /\ EmittedScalar.text = StringWritten
            /\ EmittedScalar.style = StrStyle(StringWritten)]_vars

C19_Witness ==
    /\ phase = "done" /\ ser.depth = 0
    /\ val = MapV(TRUE, TRUE, <<KV(StrV("on"), NewtypeVariant("B", StrV("on")))>>)
    /\ ser.events = <<DocumentStart, MappingStart(NoTag),
                      Scalar(NoTag, "on", "SingleQuoted"),
                      Scalar("!B", "on", "SingleQuoted"),
                      MappingEnd, DocumentEnd>>

\* ------------------------------------------------------------------------
\* C20
\* ------------------------------------------------------------------------
Reverse(o) == IF o = Less THEN Greater ELSE IF o = Greater THEN Less ELSE o

is_integer(a) == a.n.t \in {"PositiveInteger", "NegativeInteger"}

is_float(a) == a.n.t = "Float"

holds_nan(a) == is_float(a) /\ is_nan(a.n.f)

\* exactly one of Less, Equal, Greater each way round, and the two ways
\* round agree
Antisymmetric(a, b) ==
    /\ total_cmp(a, b) \in {Less, Equal, Greater}
    /\ total_cmp(b, a) = Reverse(total_cmp(a, b))

Transitive(a, b, c) ==
    (total_cmp(a, b) # Greater /\ total_cmp(b, c) # Greater) =>
        /\ total_cmp(a, c) # Greater
        /\ (total_cmp(a, b) = Less \/ total_cmp(b, c) = Less) =>
                total_cmp(a, c) = Less

IntegersBeforeFloats(a, b) ==
    (is_integer(a) /\ is_float(b)) => total_cmp(a, b) = Less

NegativesBeforeNonNegatives(a, b) ==
    (is_integer(a) /\ is_integer(b) /\ a.n.i < 0 /\ b.n.i >= 0) =>
        total_cmp(a, b) = Less

FloatsInIeeeOrder(a, b) ==
    (is_float(a) /\ is_float(b) /\ ~holds_nan(a) /\ ~holds_nan(b)) =>
        /\ total_cmp(a, b) = Less <=> HalvesOf(a.n.f) < HalvesOf(b.n.f)
        /\ total_cmp(a, b) = Equal <=> HalvesOf(a.n.f) = HalvesOf(b.n.f)

NanLast(a, b) ==
    /\ (is_float(a) /\ ~holds_nan(a) /\ holds_nan(b)) =>
            total_cmp(a, b) = Less
    /\ (holds_nan(a) /\ holds_nan(b)) => total_cmp(a, b) = Equal

\* C20: Number::total_cmp is a total order on the Numbers a program can
\* hold: each comparison gives exactly one of Less, Equal, Greater, the
\* reverse comparison gives the reverse, and the order is transitive; every
\* integer is before every float whatever their magnitudes, every negative
\* integer before every non-negative one, floats are in IEEE order, NaN is
\* after every other float and two NaNs are Equal.
C20_TotalOrder ==
    /\ \A i, j, k \in DOMAIN numbers :
            Transitive(numbers[i], numbers[j], numbers[k])
    /\ \A i, j \in DOMAIN numbers :
            /\ Antisymmetric(numbers[i], numbers[j])
            /\ IntegersBeforeFloats(numbers[i], numbers[j])
            /\ NegativesBeforeNonNegatives(numbers[i], numbers[j])
            /\ FloatsInIeeeOrder(numbers[i], numbers[j])
            /\ NanLast(numbers[i], numbers[j])
    /\ compared # NoComparison =>
            LET a == numbers[compared.i]
                b == numbers[compared.j]
            IN  /\ compared.ordering \in {Less, Equal, Greater}
                /\ (is_integer(a) /\ is_float(b)) => compared.ordering = Less
                /\ (is_float(a) /\ is_integer(b)) =>
                        compared.ordering = Greater
                /\ (holds_nan(a) /\ holds_nan(b)) => compared.ordering = Equal

\* the largest integer compared with a negative float of small magnitude
C20_Witness ==
    /\ Len(numbers) = 3
    /\ holds_nan(numbers[1])
    /\ numbers[2] = from_u64(MaxMagnitude + 1)
    /\ numbers[3] = from_f64(F64(1, "finite", 1))
    /\ compared = Comparison(2, 3, Less)

\* ------------------------------------------------------------------------
\* C21
\* ------------------------------------------------------------------------
Count(flags) == Cardinality({i \in DOMAIN flags : flags[i]})

\* C21: for all Numbers a and b exactly one of a < b, a == b, a > b holds
\* under PartialOrd and PartialEq, for integers, floats and NaN operands
\* alike, and two NaNs are equal.
C21_ExactlyOneOfLtEqGt ==
    returned.op = "compare" =>
        /\ Count(<<returned.ordering = Less, returned.flag,
                   returned.ordering = Greater>>) = 1
        /\ (holds_nan(Left) /\ holds_nan(Right)) => returned.flag

\* ------------------------------------------------------------------------
\* C22
\* ------------------------------------------------------------------------
HashReturned ==
    [float_bits |-> returned.flag, int |-> returned.int, bits |-> returned.float]

\* C22: for all Numbers a and b, a == b implies hash(a) == hash(b): equal
\* integers, two NaNs and every two floats that compare equal write the
\* same to the Hasher.
C22_EqualNumbersHashEqual ==
    (returned.op = "hash" /\ Len(numbers) >= 2 /\ eq(Left, Right)) =>
        HashReturned = hash(Left)

\* ------------------------------------------------------------------------
\* C23
\* ------------------------------------------------------------------------
\* the quiet NaN of positive sign, f64::NAN.copysign(1.0)
CanonicalNaN == F64(0, "nan", 0)

\* C23: every Number that holds NaN, constructed from an f32, from an f64,
\* by parsing or by deserialization, holds the one canonical NaN of
\* positive sign, so any two NaN Numbers have the same bits.
C23_OneCanonicalNaN ==
    /\ \A i \in DOMAIN numbers :
            holds_nan(numbers[i]) => to_bits(numbers[i].n.f) = CanonicalNaN
    /\ \A i, j \in DOMAIN numbers :
            (holds_nan(numbers[i]) /\ holds_nan(numbers[j])) =>
                to_bits(numbers[i].n.f) = to_bits(numbers[j].n.f)

\* a parsed NaN and a NaN from an f32 of negative sign with a payload
C23_Witness ==
    /\ Len(numbers) = 2
    /\ holds_nan(numbers[1]) /\ holds_nan(numbers[2])
    /\ returned.op = "from_f32"
    /\ returned.float = F64(1, "nan", 1)
    /\ numbers[2].n.f = CanonicalNaN

\* ------------------------------------------------------------------------
\* C24
\* ------------------------------------------------------------------------
\* the integer a Number holds
IntegerHeld(a) == a.n.i

\* C24: for every Number n, is_i64(n) implies that as_i64(n) is Some,
\* is_u64(n) that as_u64(n) is Some and is_f64(n) that as_f64(n) is Some,
\* each with the value n holds, unchanged.
C24_IsImpliesAs ==
    /\ (returned.op \in {"as_i64", "as_u64"} /\ returned.flag) =>
            /\ returned.some
            /\ is_integer(Right)
            /\ returned.int = IntegerHeld(Right)
    /\ (returned.op = "as_f64" /\ returned.flag) =>
            /\ returned.some
            /\ is_float(Right)
            /\ returned.float = Right.n.f

\* the largest i64, built from a u64
C24_Witness ==
    /\ numbers = <<from_u64(I64_MAX)>>
    /\ returned.op = "as_i64"
    /\ returned.flag /\ returned.some
    /\ returned.int = I64_MAX

\* ------------------------------------------------------------------------
\* C25
\* ------------------------------------------------------------------------
Clamp(v, lo, hi) == IF v < lo THEN lo ELSE IF v > hi THEN hi ELSE v

\* the value of a finite float with its fraction dropped, toward zero
TruncatedTowardZero(f) ==
    IF f.sign = 1 THEN 0 - (f.mag \div 2) ELSE f.mag \div 2

\* what the claim gives as the conversion of a to the target [lo, hi]
Saturated(a, lo, hi) ==
    CASE is_integer(a) -> Clamp(IntegerHeld(a), lo, hi)
      [] holds_nan(a) -> 0
      [] a.n.f.class = "infinite" -> IF a.n.f.sign = 1 THEN lo ELSE hi
      [] OTHER -> Clamp(TruncatedTowardZero(a.n.f), lo, hi)

\* C25: to_i16_saturating, to_i32_saturating and to_u32_saturating give,
\* for an integer, its value clamped to the target's range (0 for a negative
\* integer to u32); for a float, its value truncated toward zero and then
\* clamped, the target's max and min for the infinities; and 0 for NaN.
C25_SaturatingConversions ==
    /\ returned.op = "to_i16_saturating" =>
            returned.int = Saturated(Right, I16_MIN, I16_MAX)
    /\ returned.op = "to_i32_saturating" =>
            returned.int = Saturated(Right, I32_MIN, I32_MAX)
    /\ returned.op = "to_u32_saturating" =>
            returned.int = Saturated(Right, 0, U32_MAX)

\* to_i32_saturating(Number::from(i64::MAX)) is i32::MAX
C25_Witness ==
    /\ numbers = <<from_i64(I64_MAX)>>
    /\ I64_MAX > I32_MAX
    /\ returned.op = "to_i32_saturating"
    /\ returned.int = I32_MAX

\* ------------------------------------------------------------------------
\* C26
\* ------------------------------------------------------------------------
ParsedInteger ==
    returned.some /\ is_integer(Right) /\ IntegerHeld(Right) = IntegerOf(returned.text)

ParsedFloat == returned.some /\ is_float(Right)

FailedWith(err) == ~returned.some /\ returned.err = err

\* C26: Number::from_str returns an integer whenever the text matches the
\* integer grammar; otherwise text of digits that is no number fails with
\* FailedToParseNumber, other text that fails the float grammar fails with
\* FailedToParseFloat, and the remaining text parses to a float: each text
\* has exactly one of the four outcomes, decided in this order.
C26_FromStrOutcomes ==
    returned.op = "from_str" =>
        LET repr == returned.text
        IN  /\ Count(<<ParsedInteger, FailedWith(FailedToParseNumber),
                       FailedWith(FailedToParseFloat), ParsedFloat>>) = 1
            /\ ParsedInteger <=> MatchesInteger(repr)
            /\ FailedWith(FailedToParseNumber) <=>
                    ~MatchesInteger(repr) /\ digits_but_not_number(repr)
            /\ FailedWith(FailedToParseFloat) <=>
                    /\ ~MatchesInteger(repr)
                    /\ ~digits_but_not_number(repr)
                    /\ ~IsFloat(repr)

\* 01 looks like digits and is no number, though 1 parses as an integer
\* and 1.5 as a float
C26_Witness ==
    /\ returned.op = "from_str" /\ returned.text = "01"
    /\ FailedWith(FailedToParseNumber)
    /\ numbers = <<>>
    /\ from_str("1") = ParseResult(TRUE, from_u64(1), Ok)
    /\ from_str("1.5") = ParseResult(TRUE, from_f64(F64(0, "finite", 3)), Ok)
    /\ from_str("1.2.3") = ParseResult(FALSE, NoNumber, FailedToParseFloat)

\* ------------------------------------------------------------------------
\* C27
\* ------------------------------------------------------------------------
IsSpecial(f) == f.class \in {"nan", "infinite"}

\* the YAML name of a float that is not finite
SpecialName(f) ==
    IF f.class = "nan" THEN ".nan" ELSE IF f.sign = 1 THEN "-.inf" ELSE ".inf"

\* C27: the encoder, for f32 and f64 values, and Number's Display render
\* NaN as .nan, positive infinity as .inf and negative infinity as -.inf;
\* the encoder emits each as a Plain scalar.
C27_SpecialFloats ==
    /\ (phase = "done" /\ val.k \in {"f32", "f64", "Float"}
            /\ IsSpecial(val.float)) =>
            ser.events = <<DocumentStart,
                           Scalar(NoTag, SpecialName(val.float), "Plain"),
                           DocumentEnd>>
    /\ (returned.op = "fmt" /\ is_float(Right) /\ IsSpecial(Right.n.f)) =>
            returned.text = SpecialName(Right.n.f)

\* negative infinity, formatted and then encoded
C27_Witness ==
    /\ numbers = <<from_f64(F64(1, "infinite", 0))>>
    /\ returned.op = "fmt" /\ returned.text = "-.inf"
    /\ phase = "done"
    /\ ser.events = <<DocumentStart, Scalar(NoTag, "-.inf", "Plain"),
                      DocumentEnd>>

\* ------------------------------------------------------------------------
\* C28
\* ------------------------------------------------------------------------
Failed == ser.err # Ok

IsMapOfOne(v) ==
    /\ v.k = "map" /\ v.len1
    /\ Len(v.entries) = 1
    /\ ~IsTagKeyedMap(v)

\* the encoding in which the map's MappingStart is emitted once, after
\* serialize_map and before the first call the key makes
MappingStartFirst(v) ==
    Run(flush_mapping_start(serialize_map(new_with_config, TRUE)),
        Tail(Calls(v)), <<>>, config)

MapOfOneEncoded ==
    /\ phase = "done" /\ Fresh /\ mode = "plain"
    /\ IsMapOfOne(val)

\* C30: for every map of declared length 1 that is not converted into a
\* tag, the MappingStart of the map is emitted exactly once and before any
\* event of its key, with serialize_key and with serialize_entry, whatever
\* the key is: the events are those of the encoding that emits the
\* MappingStart right after serialize_map.
C30_MappingStartOnceBeforeKey ==
    MapOfOneEncoded =>
        /\ ser.events = MappingStartFirst(val).events
        /\ ser.events[2] = MappingStart("")

\* the same with serialize_key only, which flushes the MappingStart itself
C30_WithSerializeKey ==
    (MapOfOneEncoded /\ ~val.entry) =>
        /\ ser.events = MappingStartFirst(val).events
        /\ ser.events[2] = MappingStart("")

\* the same with serialize_entry and a key that is a scalar or a sequence
C30_WithSerializeEntryPlainKey ==
    (/\ MapOfOneEncoded /\ val.entry
     /\ val.entries[1].key.k \in {"str", "int", "seq", "display"}) =>
        /\ ser.events = MappingStartFirst(val).events
        /\ ser.events[2] = MappingStart("")

\* ------------------------------------------------------------------------
\* C29
\* ------------------------------------------------------------------------
\* the Serializer after the first n calls of cs, made with nothing else
\* running
Alone(s, cs, n, tag_unit_variants) ==
    Run(s, SubSeq(cs, 1, n), <<>>, tag_unit_variants)

\* calls of cs made so far, when `rest` are still to make; a failed
\* operation stopped at its first error
Made(cs, rest, ph) == IF ph = "failed" THEN Len(cs) ELSE Len(cs) - Len(rest)

FirstAsAlone ==
    phase \in {"running", "done", "failed"} =>
        LET cs == CallsFor(val, mode)
            alone == Alone(before, cs, Made(cs, calls, phase), config)
        IN  /\ ser.state = alone.state
            /\ ser.depth = alone.depth
            /\ ser.events = alone.events

SecondAsAlone ==
    LET cs == Calls(second.val)
        alone == Alone(new_with_config, cs,
                       Made(cs, second.calls, second.phase), second.config)
    IN  IF second.phase = "idle" THEN second = NoSecond
        ELSE /\ second.ser.state = alone.state
             /\ second.ser.depth = alone.depth
             /\ second.ser.events = alone.events

\* C29: two encode operations on two Serializers share no state: under
\* every interleaving of their steps the state, the depth and the events of
\* each Serializer are, after each step, those it has after the same calls
\* when its operation runs alone, and a Serializer with no operation
\* running is not changed by the other's steps.
C29_InstancesShareNoState ==
    /\ FirstAsAlone
    /\ SecondAsAlone
    /\ phase = "idle" => ser = before

\* both operations are under way, each inside a different collection
C29_Witness ==
    /\ phase = "running" /\ second.phase = "running"
    /\ val.k = "seq" /\ second.val.k = "map"
    /\ Len(ser.events) = 3 /\ Len(second.ser.events) = 3
    /\ ser.depth = 1 /\ second.ser.depth = 1
    /\ config # second.config

\* ------------------------------------------------------------------------
\* C31
\* ------------------------------------------------------------------------
\* the events a step hands to the emitter
EventsOfStep == SubSeq(ser'.events, Len(ser.events) + 1, Len(ser'.events))

\* SerializeMap::end in each state it can be called in
MapEndStep ==
    Running("map_end") =>
        /\ ser'.err = Ok
        /\ ser'.state = NothingInParticular
        /\ ser.state = CheckForTag =>
              /\ CountEvents(EventsOfStep, "MappingStart") = 1
              /\ CountEvents(EventsOfStep, "MappingEnd") = 1
              /\ ser'.depth = ser.depth
        /\ ser.state = AlreadyTagged =>
              /\ EventsOfStep = <<>>
              /\ ser'.depth = ser.depth
        /\ ser.state \notin {CheckForTag, AlreadyTagged} =>
              CountEvents(EventsOfStep, "MappingEnd") = 1

\* C31: a map that ends in CheckForTag gets exactly one MappingStart and
\* exactly one MappingEnd and depth is what it was before the map began; a
\* map that ends in AlreadyTagged gets no MappingEnd; in every other state
\* exactly one MappingEnd is emitted; the state afterwards is
\* NothingInParticular.
C31_MapEnd == [][MapEndStep]_vars

\* the parts of C31 that do not concern CheckForTag
C31_MapEndOutsideCheckForTag ==
    [][(Running("map_end") /\ ser.state # CheckForTag) => MapEndStep]_vars

\* ------------------------------------------------------------------------
\* C32
\* ------------------------------------------------------------------------
\* DocumentStart when the step begins a document
Opening == IF ser.depth = 0 THEN <<DocumentStart>> ELSE <<>>

SerializeMapStep ==
    Running("serialize_map") =>
        /\ ser'.err = Ok
        /\ (Head(calls).flag /\ ~IsFoundTag(ser.state)) =>
              /\ EventsOfStep = <<>>
              /\ ser'.state = CheckForTag
              /\ ser'.depth = ser.depth
        /\ (Head(calls).flag /\ IsFoundTag(ser.state)) =>
              /\ EventsOfStep
                   = Opening \o <<MappingStart(take_tag_value(ser))>>
              /\ ser'.state = CheckForDuplicateTag
        /\ ~Head(calls).flag =>
              /\ EventsOfStep # <<>>
              /\ EventsOfStep[Len(EventsOfStep)].e = "MappingStart"
              /\ ser'.state = NothingInParticular

C32_SerializeMapOutsideAlreadyTagged ==
    [][(Running("serialize_map") /\ ser.state # AlreadyTagged)
          => SerializeMapStep]_vars

\* ------------------------------------------------------------------------
\* C33
\* ------------------------------------------------------------------------
FlushMappingStartStep ==
    Running("flush_mapping_start") =>
        /\ ser'.err = Ok
        /\ ser.state = CheckForTag =>
              /\ EventsOfStep = Opening \o <<MappingStart(NoTag)>>
              /\ ser'.state = NothingInParticular
        /\ ser.state = CheckForDuplicateTag =>
              /\ EventsOfStep = <<>>
              /\ ser'.state = NothingInParticular
        /\ ser.state \notin {CheckForTag, CheckForDuplicateTag} =>
              /\ EventsOfStep = <<>>
              /\ ser'.state = ser.state
              /\ ser'.depth = ser.depth

\* C33: flush_mapping_start in CheckForTag emits exactly one MappingStart
\* and sets NothingInParticular; in CheckForDuplicateTag it sets
\* NothingInParticular and emits nothing; in NothingInParticular, FoundTag
\* and AlreadyTagged it emits nothing and changes neither state nor depth.
C33_FlushMappingStart == [][FlushMappingStartStep]_vars

\* flush_mapping_start has run in CheckForTag inside a document
C33_Witness ==
    /\ phase = "done"
    /\ before.state = CheckForTag /\ before.depth = 1
    /\ ser.events = <<MappingStart(NoTag)>>
    /\ ser.depth = 2
    /\ ser.state = NothingInParticular

\* ------------------------------------------------------------------------
\* C34
\* ------------------------------------------------------------------------
\* the step emits the scalar of an ordinary string: its display text, styled
\* as serialize_str styles it
EmitsStringScalar(text) ==
    /\ CountEvents(EventsOfStep, "Scalar") = 1
    /\ \E i \in 1..Len(EventsOfStep) :
          EventsOfStep[i] = Scalar(take_tag_value(ser), text, StrStyle(text))

CollectStrStep ==
    Running("collect_str") =>
        LET text == Head(calls).text
            accepted == check_for_tag(text, Head(calls).flag).is_tag
        IN  /\ (ser.state = CheckForTag /\ accepted) =>
                  /\ ser'.err = Ok
                  /\ ser'.state = FoundTag(text)
                  /\ EventsOfStep = <<>>
                  /\ ser'.depth = ser.depth
            /\ (ser.state = CheckForDuplicateTag /\ accepted) =>
                  /\ ser'.err = SerializeNestedEnum
                  /\ EventsOfStep = <<>>
            /\ (ser.state \in {CheckForTag, CheckForDuplicateTag}
                    /\ ~accepted) =>
                  /\ ser'.err = Ok
                  /\ EmitsStringScalar(text)
            /\ ser.state \notin {CheckForTag, CheckForDuplicateTag} =>
                  /\ ser'.err = Ok
                  /\ EmitsStringScalar(to_string(text, Head(calls).flag))

\* C34: collect_str in CheckForTag with text the classifier accepts as a
\* variant name sets FoundTag(text) and emits nothing; in
\* CheckForDuplicateTag with such text it returns the nested-enum error;
\* text the classifier rejects, and any text in any other state, is emitted
\* as an ordinary string scalar.
C34_CollectStr == [][CollectStrStep]_vars

\* a second tag was refused
C34_Witness ==
    /\ phase = "failed"
    /\ before.state = CheckForDuplicateTag
    /\ ser.err = SerializeNestedEnum
    /\ ser.events = <<>>

\* ------------------------------------------------------------------------
\* C35
\* ------------------------------------------------------------------------
RECURSIVE HasVariant(_)
HasVariant(v) ==
    CASE v.k \in {"uvar", "nvar", "tvar", "svar"} -> TRUE
      [] v.k = "some" -> HasVariant(v.v)
      [] v.k = "seq" -> \E i \in 1..Len(v.items) : HasVariant(v.items[i])
      [] v.k = "struct" ->
            \E i \in 1..Len(v.fields) : HasVariant(v.fields[i].value)
      [] v.k = "map" ->
            \E i \in 1..Len(v.entries) :
                HasVariant(v.entries[i].key) \/ HasVariant(v.entries[i].value)
      [] OTHER -> FALSE

\* the Serializer's fields that the caller and the emitter see
Outcome(s) == [events |-> s.events, err |-> s.err, state |-> s.state,
               depth |-> s.depth]

\* a value with no enum variant gives the same events with and without the
\* proxy
ForwardedUnchanged ==
    (/\ phase \in {"done", "failed"} /\ Fresh
     /\ mode \in ProxyModes /\ ~HasVariant(val)) =>
        Outcome(ser) = Outcome(Run(before, Calls(val), <<>>, config))

\* the fields of a tuple or struct variant encoded directly, as a tuple or a
\* struct, in the place the proxy gives the payload: the value of the one
\* entry whose key is the variant's name
PayloadDirect(v) ==
    SerializeMapSome1 \o SerializeKeyCalls(Calls(StrV(v.name)))
    \o (IF v.k = "tvar" THEN Calls(SeqV(v.items))
        ELSE Calls(StructV(v.fields)))
    \o MapEndCalls

PayloadAsDirect ==
    (/\ phase \in {"done", "failed"} /\ Fresh
     /\ mode = "singleton_map" /\ val.k \in {"tvar", "svar"}) =>
        Outcome(ser) = Outcome(Run(before, PayloadDirect(val), <<>>, config))

\* C35: apart from the four enum entry points the proxy forwards every call
\* unchanged: a value with no enum variant in it produces the same events
\* with and without the proxy, and the fields of a tuple or struct variant
\* reach the inner encoder as they would if they were encoded directly as a
\* tuple or struct.
C35_ProxyForwardsUnchanged == ForwardedUnchanged /\ PayloadAsDirect

\* ------------------------------------------------------------------------
\* C36
\* ------------------------------------------------------------------------
\* the stream begins with its one StreamStart, which is there before any
\* event of a value
OneStreamStartFirst ==
    /\ Written # <<>>
    /\ Written[1] = StreamStart
    /\ CountEvents(Written, "StreamStart") = 1

\* an encode that completed through to_writer, or on the caller's
\* Serializer followed by into_inner
CompletedEncode == stream.over /\ phase = "done"

LastOf(events, e) ==
    IF CountEvents(events, e) = 0 THEN 0
    ELSE CHOOSE i \in 1..Len(events) :
            /\ events[i].e = e
            /\ \A j \in (i + 1)..Len(events) : events[j].e # e

OneStreamEndLast ==
    /\ Written[Len(Written)] = StreamEnd
    /\ CountEvents(Written, "StreamEnd") = 1
    /\ LastOf(Written, "DocumentEnd") < Len(Written)

\* once StreamEnd is emitted the Serializer emits nothing more
NothingAfterStreamEnd ==
    CountEvents(Written, "StreamEnd") > 0 =>
        \/ Written' = Written
        \/ /\ ser' = new_with_config
           /\ Written' = <<StreamStart>>

\* C36: every event stream begins with exactly one StreamStart, emitted
\* when the Serializer is built and before any other event; a completed
\* encode through the public entry points ends with exactly one StreamEnd
\* after the last DocumentEnd; no event is emitted after StreamEnd.
C36_StreamStartAndEnd ==
    /\ []OneStreamStartFirst
    /\ [](CompletedEncode => OneStreamEndLast)
    /\ [][NothingAfterStreamEnd]_vars

\* the same for an encode that the caller ends with into_inner
C36_WithIntoInner ==
    /\ []OneStreamStartFirst
    /\ []((CompletedEncode /\ stream.entry = "new") => OneStreamEndLast)
    /\ [][NothingAfterStreamEnd]_vars

\* to_writer has returned Ok and the stream has no StreamEnd
C36_ToWriterLeavesStreamOpen ==
    ~(/\ CompletedEncode
      /\ stream.entry = "to_writer"
      /\ CountEvents(Written, "StreamEnd") = 0)

\* ------------------------------------------------------------------------
\* C37
\* ------------------------------------------------------------------------
IsIntegerNumber(n) == n.n.t \in {"PositiveInteger", "NegativeInteger"}

\* the representation of the integer i that the claim requires
BySign(i) ==
    IF i < 0 THEN Number(NegativeInteger(i)) ELSE Number(PositiveInteger(i))

\* the Number constructed last came from an integer constructor or from a
\* method of NumberVisitor, given the integer returned.int
BuiltFromInteger ==
    /\ numbers # <<>>
    /\ returned.op \in {"from_i64", "from_u64", "visit_i64", "visit_u64"}

\* the Number constructed last was parsed from a text of the integer grammar
ParsedFromInteger ==
    /\ numbers # <<>>
    /\ returned.op = "from_str"
    /\ returned.some
    /\ MatchesInteger(returned.text)

NegativeIntegerIsNegative ==
    \A k \in 1..Len(numbers) :
        /\ numbers[k].n.t = "NegativeInteger" => numbers[k].n.i < 0
        /\ numbers[k].n.t = "PositiveInteger" => numbers[k].n.i >= 0

\* two integers of the same value, however each was built, are equal
SameIntegerSameNumber ==
    (/\ Len(numbers) >= 2
     /\ IsIntegerNumber(Left) /\ IsIntegerNumber(Right)
     /\ Left.n.i = Right.n.i)
        => /\ eq(Left, Right)
           /\ Left = Right

\* C37: every Number produced by an integer constructor, by parsing or by
\* deserialization stores a negative value as NegativeInteger and a
\* non-negative value as PositiveInteger, so NegativeInteger never holds a
\* value of 0 or more, and for every non-negative v the Number built from
\* v as i64 equals the Number built from v as u64.
C37_IntegerStoredBySign ==
    /\ BuiltFromInteger => Right = BySign(returned.int)
    /\ ParsedFromInteger => Right = BySign(IntegerOf(returned.text))
    /\ NegativeIntegerIsNegative
    /\ SameIntegerSameNumber

\* v as i64 and then the same v as u64, v not negative
C37_Witness ==
    /\ Len(numbers) = 2
    /\ returned.op = "from_u64"
    /\ IsIntegerNumber(Left)
    /\ Left.n.i = returned.int
    /\ eq(Left, Right)

\* ------------------------------------------------------------------------
\* C38
\* ------------------------------------------------------------------------
\* a map written with serialize_entry has been encoded without error
WrittenWithSerializeEntry ==
    /\ phase = "done"
    /\ mode = "plain"
    /\ val.k = "map"
    /\ val.entry
    /\ val.entries # <<>>

\* the same map, each entry written with serialize_key and serialize_value
WithKeyThenValue ==
    Run(before, Calls([val EXCEPT !.entry = FALSE]), <<>>, config)

SameEventsSameState ==
    /\ ser.events = WithKeyThenValue.events
    /\ ser.state = WithKeyThenValue.state
    /\ ser.err = WithKeyThenValue.err

\* C38: for every key k and value v written into a map, serialize_entry(k,
\* v) hands the emitter the same events and leaves the same state as
\* serialize_key(k) followed by serialize_value(v).
C38_EntryAsKeyThenValue == WrittenWithSerializeEntry => SameEventsSameState

\* the key's own first emit flushes the deferred MappingStart
KeyFlushes(key) == key.k \in {"str", "int", "none", "seq", "struct"}

\* the same for a map that did not defer its MappingStart, or whose key
\* flushes it
C38_WithoutDeferredStart ==
    (/\ WrittenWithSerializeEntry
     /\ ~val.len1 \/ KeyFlushes(val.entries[1].key))
        => SameEventsSameState

\* ------------------------------------------------------------------------
\* C39
\* ------------------------------------------------------------------------
\* the value at hand was encoded as if the Serializer had been handed over
\* in state NothingInParticular
AsFromNothingInParticular ==
    ser = Run([before EXCEPT !.state = NothingInParticular],
              CallsFor(val, mode), <<>>, config)

\* C39: after any value has been fully encoded without error, whatever tree
\* of values it was, the state is NothingInParticular: no FoundTag,
\* CheckForTag, CheckForDuplicateTag or AlreadyTagged left over from one
\* value can change the events of the next value serialized on the same
\* Serializer.
C39_StateResetAfterValue ==
    /\ phase = "done" => ser.state = NothingInParticular
    /\ phase = "idle" => ser.state = NothingInParticular
    /\ phase \in {"done", "failed"} => AsFromNothingInParticular

\* a one-entry map with a tag for its key was encoded: the state went
\* through CheckForTag, FoundTag and AlreadyTagged
C39_Witness ==
    /\ phase = "done"
    /\ val.k = "map" /\ val.len1 /\ val.entry
    /\ val.entries # <<>>
    /\ val.entries[1].key = Display("B", TRUE)
    /\ Tagged(ser.events) # {}
    /\ ser.state = NothingInParticular

====
